---- MODULE Spec2Model ----
(***************************************************************************)
(* A model of the leecher of gedkott/bit_torrent: the piece/block          *)
(* scheduler (src/src/torrent.rs), the bitfield (src/src/bitfield.rs), the *)
(* bencode codec (src/src/bencode.rs) and the engine that wires peer       *)
(* workers to the shared scheduler (src/src/main.rs).                      *)
(*                                                                         *)
(* Vec and VecDeque are sequences (index i of the source is i + 1 here).   *)
(* Option is a record with a boolean field "some".  A panic is a result    *)
(* record with panic = TRUE; the state it carries is the state at the      *)
(* point of the panic.                                                     *)
(*                                                                         *)
(* Several state machines share the variables: SpecTorrent drives the      *)
(* scheduler through its public operations, SpecBencode drives the codec,  *)
(* SpecBitField the bitfield, SpecTracker the decoding of compact peers    *)
(* (src/src/tracker.rs), SpecToFile the writing of the files, SpecDownload *)
(* a download from one peer, SpecMessage the parsing of a frame            *)
(* (src/src/messages.rs), and Spec and FairSpec run the engine.  Each      *)
(* leaves the variables of the others as they start.                       *)
(***************************************************************************)
EXTENDS Integers, Sequences, FiniteSets, TLC

VARIABLES
    torrent,      \* the Torrent behind Arc<RwLock<..>> (main.rs:57)
    last,         \* the last scheduler call: its arguments and what it returned
    arrivals,     \* history: (piece, offset) -> number of fill_block calls so far
    panicked,     \* a scheduler call has panicked (the thread using it is dead)
    odd,          \* history: piece messages so far whose payload length was not
                  \* the length of the block they answer
    advertised,   \* the bitfield of the peer of a download from one peer
    served,       \* history: what get_next_block handed out to that peer, in order
    handed,       \* history: how often get_next_block returned each (piece, offset)
    document,     \* the bytes handed to bdecode
    tokens,       \* history: the number of tokens the document was made of
    decoded,      \* the result of bdecode, once called
    encoded,      \* the result of bencode on the decoded value, once called
    redecoded,    \* the result of bdecode on the encoded bytes, once called
    engine,       \* the main thread: where it is in TorrentProcessor::start
    worker,       \* per peer: the worker thread, where it is in its loop
    connection,   \* per peer: the fields of its PeerConnection
    link,         \* per peer: the state of the socket
    pending,      \* per peer: request frames written and not yet answered
    traffic,      \* history, per peer: request frames written less piece messages
                  \* accepted, and the interested frames written
    peer,         \* per peer: what kind of peer it is and what it sends next
    poisoned,     \* the RwLock is poisoned, and by what kind of panic
    field,        \* the BitField under test, and its last call with what it returned
    compact,      \* the compact peers byte string and what it decoded to
    disk,         \* the run of to_file: the declared files and those written so far
    parsed        \* the body of a frame off the wire and what Message::new made of it

schedulerVars == <<last, arrivals, panicked, odd, advertised, served, handed>>
codecVars == <<document, tokens, decoded, encoded, redecoded>>
engineVars == <<engine, worker, connection, link, pending, traffic, peer, poisoned>>
utilVars == <<field, compact, disk, parsed>>
vars == <<torrent, schedulerVars, codecVars, engineVars, utilVars>>

(***************************************************************************)
(* Bounds of the model                                                     *)
(***************************************************************************)
MaxPieceLength == 6
MaxPieces == 3
MaxData == 4
MaxOddPayloads == 1
MaxTokens == 6
MaxPeers == 2
MaxArbitraryPeers == 1
MaxBitfieldBytes == 2
MaxSets == 2
MaxEntries == 2
MaxFiles == 3
MaxFileLength == 2

\* torrent.rs:37 sets 16384.  The model scales the block size down so that
\* piece lengths around one and two blocks, and whole payloads, can be
\* enumerated; every definition below is written in terms of this name.
FIXED_BLOCK_SIZE == 3


(***************************************************************************)
(* Small helpers                                                           *)
(***************************************************************************)
RECURSIVE Pow2(_)
Pow2(n) == IF n = 0 THEN 1 ELSE 2 * Pow2(n - 1)

\* f32 ceil of a / b, exact for the magnitudes the model reaches
CeilDiv(a, b) == (a + b - 1) \div b

\* Vec::swap_remove(i): the last element takes the place of element i
swap_remove(s, i) ==
    [k \in 1..(Len(s) - 1) |-> IF k = i THEN s[Len(s)] ELSE s[k]]

\* Iterator::position: the first of the indices that satisfy the predicate,
\* 0 when there is none
first_of(hits) == IF hits = {} THEN 0 ELSE CHOOSE k \in hits : \A j \in hits : k <= j

\* .position(|piece| piece.index == piece_index)
position_of_piece(pieces, piece_index) ==
    first_of({k \in 1..Len(pieces) : pieces[k].index = piece_index})

\* .position(|block| block.piece_index == piece_index && block.offset == offset)
position_of_block(blocks, piece_index, offset) ==
    first_of({k \in 1..Len(blocks) : /\ blocks[k].piece_index = piece_index
                                     /\ blocks[k].offset = offset})

(***************************************************************************)
(* BitField (bitfield.rs)                                                  *)
(***************************************************************************)
\* a reading of the byte that takes index 0 for its least significant bit
is_set_lsb_first(bf, bit) ==
    LET byte == bit \div 8
        offset_in_byte == bit % 8
    IN  IF byte + 1 > Len(bf)
        THEN [ok |-> FALSE, val |-> FALSE]
        ELSE [ok |-> TRUE,
              val |-> ((bf[byte + 1] \div Pow2(offset_in_byte)) % 2) # 0]

\* From<Vec<u8>>: the raw bytes are the bitfield
\* is_set: Err(InvalidBit) when the byte is absent, else the bit, MSB first
is_set(bf, bit) ==
    LET byte == bit \div 8
        offset_in_byte == bit % 8
    IN  IF byte + 1 > Len(bf)
        THEN [ok |-> FALSE, val |-> FALSE]
        ELSE [ok |-> TRUE,
              val |-> ((bf[byte + 1] \div Pow2(7 - offset_in_byte)) % 2) # 0]

\* bitfield.rs:13-22: ceil(size / 8) zero bytes, and the size in bits
BitField_new(size) == [bf |-> [i \in 1..CeilDiv(size, 8) |-> 0], len |-> size]

\* bitfield.rs:85-90: the raw bytes, and their number as len
BitField_from(bytes) == [bf |-> bytes, len |-> Len(bytes)]

(***************************************************************************)
(* Torrent (torrent.rs)                                                    *)
(***************************************************************************)
Block(state, offset, last_request, piece_index, block_length) ==
    [state |-> state, offset |-> offset, last_request |-> last_request,
     piece_index |-> piece_index, block_length |-> block_length]

NoBlock == [some |-> FALSE]
SomeBlock(b) == [some |-> TRUE, block |-> b]

\* line 64-65: `!!x` on a u32 is bitwise NOT applied twice, which is x itself
number_of_blocks_of(piece_length) ==
    (piece_length \div FIXED_BLOCK_SIZE) + (piece_length % FIXED_BLOCK_SIZE)

\* lines 87-95
last_piece_block_count_of(last_piece_length) ==
    LET m == CeilDiv(last_piece_length, FIXED_BLOCK_SIZE)
    IN  IF m = 0 THEN 1 ELSE m

\* line 97
last_piece_index_of(total_length, piece_length) == total_length \div piece_length

\* a count that takes the last piece for a full one
total_blocks_all_full(number_of_pieces, number_of_blocks, last_piece_block_count) ==
    number_of_pieces * number_of_blocks

\* line 124
total_blocks_of(number_of_pieces, number_of_blocks, last_piece_block_count) ==
    ((number_of_pieces - 1) * number_of_blocks) + last_piece_block_count

Torrent_new(number_of_pieces, piece_length, total_length) ==
    LET number_of_blocks == number_of_blocks_of(piece_length)
        pieces0 ==
            [i \in 1..(number_of_pieces - 1) |->
                [index |-> i - 1,
                 blocks |-> [b \in 1..number_of_blocks |->
                     Block("NotRequested", FIXED_BLOCK_SIZE * (b - 1), "None",
                           i - 1, FIXED_BLOCK_SIZE)]]]
        last_piece_length == total_length % piece_length
        last_piece_block_count == last_piece_block_count_of(last_piece_length)
        last_piece_index == last_piece_index_of(total_length, piece_length)
        last_blocks0 ==
            [b \in 1..(last_piece_block_count - 1) |->
                Block("NotRequested", FIXED_BLOCK_SIZE * (b - 1), "None",
                      Len(pieces0), FIXED_BLOCK_SIZE)]
        last_block ==
            Block("NotRequested", FIXED_BLOCK_SIZE * (last_piece_block_count - 1),
                  "None", Len(pieces0),
                  last_piece_length - (FIXED_BLOCK_SIZE * Len(last_blocks0)))
        last_blocks == Append(last_blocks0, last_block)
        pieces == Append(pieces0, [index |-> last_piece_index, blocks |-> last_blocks])
    IN  [total_blocks |-> total_blocks_of(number_of_pieces, number_of_blocks,
                                          last_piece_block_count),
         pieces |-> pieces,
         piece_length |-> piece_length,
         total_pieces |-> number_of_pieces,
         completed_blocks |-> 0,
         requested_blocks |-> 0,
         percent_complete |-> <<0, 1>>,
         repeated_blocks |-> [k \in {} |-> 0],
         in_progress_blocks |-> <<>>,
         completed_pieces |->
             [p \in 0..(number_of_pieces - 1) |->
                 [b \in 0..(number_of_blocks - 1) |-> NoBlock]],
         data_buffer |-> [i \in 1..total_length |-> 0]]

\* lines 155-172: the first piece, in the order of the active list, whose bit
\* is set; is_set(..).unwrap() panics on an index the bitfield does not cover
RECURSIVE select_piece_from(_, _, _)
select_piece_from(pieces, bf, k) ==
    IF k > Len(pieces) THEN [panic |-> FALSE, found |-> FALSE, pos |-> 0]
    ELSE LET r == is_set(bf, pieces[k].index)
         IN  IF ~r.ok THEN [panic |-> TRUE, found |-> FALSE, pos |-> k]
             ELSE IF r.val THEN [panic |-> FALSE, found |-> TRUE, pos |-> k]
             ELSE select_piece_from(pieces, bf, k + 1)

\* a scan that serves the advertised piece of lowest index, wherever it stands
select_piece_lowest_index(pieces, bf) ==
    LET first == select_piece_from(pieces, bf, 1)
        set == {k \in 1..Len(pieces) :
                   is_set(bf, pieces[k].index).ok /\ is_set(bf, pieces[k].index).val}
    IN  IF first.panic \/ ~first.found THEN first
        ELSE [first EXCEPT !.pos =
                 CHOOSE k \in set : \A j \in set : pieces[k].index <= pieces[j].index]

select_piece(pieces, bf) == select_piece_from(pieces, bf, 1)

\* a scheduler that stops at two blocks in flight
at_capacity_of_two(in_progress_blocks) == Len(in_progress_blocks) = 2

\* line 144: the back-pressure cap on blocks in flight
at_capacity(in_progress_blocks) == Len(in_progress_blocks) = 1

\* a queue served from its back
pop_back(queue) == [block |-> queue[Len(queue)], rest |-> SubSeq(queue, 1, Len(queue) - 1)]

\* a queue whose front block is read and left where it is (VecDeque::front)
pop_front_peek(queue) == [block |-> Head(queue), rest |-> queue]

\* line 179: VecDeque::pop_front on a queue that is not empty
pop_front(queue) == [block |-> Head(queue), rest |-> Tail(queue)]

\* a removal that takes the last piece of the active list (Vec::pop)
remove_last(pieces, piece_index) == SubSeq(pieces, 1, Len(pieces) - 1)

\* no removal at all
remove_nothing(pieces, piece_index) == pieces

\* lines 189-198: a piece whose queue has run empty leaves the active list
remove_exhausted(pieces, piece_index) ==
    LET index == position_of_piece(pieces, piece_index)
    IN  swap_remove(pieces, index)

NoneReturned == [some |-> FALSE, piece |-> 0, offset |-> 0, length |-> 0]
PieceIndexOffsetLength(p, o, l) ==
    [some |-> TRUE, piece |-> p, offset |-> o, length |-> l]

\* lines 143-204
get_next_block(t, bf) ==
    IF at_capacity(t.in_progress_blocks)
    THEN [t |-> t, ret |-> NoneReturned, panic |-> FALSE]
    ELSE
    LET res == select_piece(t.pieces, bf)
    IN  IF res.panic THEN [t |-> t, ret |-> NoneReturned, panic |-> TRUE]
        ELSE IF ~res.found THEN [t |-> t, ret |-> NoneReturned, panic |-> FALSE]
        ELSE
        LET piece_index == t.pieces[res.pos].index
            queue == t.pieces[res.pos].blocks
        IN  IF Len(queue) = 0
            THEN [t |-> t, ret |-> NoneReturned, panic |-> TRUE]
            ELSE
            LET next_block == [pop_front(queue).block EXCEPT !.state = "Requested",
                                                             !.last_request = "Some"]
                popped == [t.pieces EXCEPT ![res.pos].blocks = pop_front(queue).rest]
                pieces == IF Len(pop_front(queue).rest) = 0
                          THEN remove_exhausted(popped, piece_index)
                          ELSE popped
            IN  [t |-> [t EXCEPT !.requested_blocks = @ + 1,
                                 !.in_progress_blocks = Append(@, next_block),
                                 !.pieces = pieces],
                 ret |-> PieceIndexOffsetLength(piece_index, next_block.offset,
                                                next_block.block_length),
                 panic |-> FALSE]

\* line 224-225
blocks_file_position(piece_index, piece_length, offset) ==
    (piece_index * piece_length) + offset

\* lines 227-230: write_all into the slice [pos, pos + len(data))
write_all(data_buffer, pos, data) ==
    [i \in 1..Len(data_buffer) |->
        IF i > pos /\ i <= pos + Len(data) THEN data[i - pos] ELSE data_buffer[i]]

\* line 231
completed_after_fill(completed_blocks) == completed_blocks + 1

\* lines 236-239
tally(repeated_blocks, key) ==
    [k \in (DOMAIN repeated_blocks) \cup {key} |->
        IF k = key
        THEN (IF key \in DOMAIN repeated_blocks THEN repeated_blocks[key] + 1 ELSE 1)
        ELSE repeated_blocks[k]]

\* lines 206-241
fill_block(t, piece_index, offset, data) ==
    LET block_index == offset \div FIXED_BLOCK_SIZE
        index == position_of_block(t.in_progress_blocks, piece_index, offset)
    IN  IF index = 0 THEN [t |-> t, panic |-> TRUE]
        ELSE
        LET b == t.in_progress_blocks[index]
        IN  IF b.state # "Done"
            THEN
            LET pos == blocks_file_position(piece_index, t.piece_length, offset)
                marked == [t EXCEPT !.in_progress_blocks[index].state = "Done"]
            IN  IF pos + Len(data) > Len(t.data_buffer)
                THEN [t |-> marked, panic |-> TRUE]
                ELSE
                LET completed == completed_after_fill(t.completed_blocks)
                    filled == [marked EXCEPT
                        !.data_buffer = write_all(@, pos, data),
                        !.completed_blocks = completed,
                        !.percent_complete = <<completed, t.total_blocks>>,
                        !.in_progress_blocks = swap_remove(@, index)]
                IN  IF piece_index \notin DOMAIN t.completed_pieces
                       \/ block_index \notin DOMAIN t.completed_pieces[piece_index]
                    THEN [t |-> filled, panic |-> TRUE]
                    ELSE [t |-> [filled EXCEPT
                                   !.completed_pieces[piece_index][block_index] =
                                       SomeBlock(marked.in_progress_blocks[index])],
                          panic |-> FALSE]
            ELSE [t |-> [t EXCEPT !.repeated_blocks = tally(@, <<piece_index, offset>>)],
                  panic |-> FALSE]

\* lines 269-271
are_we_done_yet(t) == t.completed_blocks = t.total_blocks

(***************************************************************************)
(* Bencode codec (bencode.rs)                                              *)
(*                                                                         *)
(* A byte is a one-character string; a byte sequence is a sequence of      *)
(* them.  Indices into the input are the 0-based indices of the source.    *)
(* A Bencodable is a record tagged with its variant; a BTreeMap is the     *)
(* sequence of its entries in ascending key order, keys unique.            *)
(***************************************************************************)
Digits == <<"0", "1", "2", "3", "4", "5", "6", "7", "8", "9">>

\* u8::is_ascii_digit
is_ascii_digit(b) == \E d \in 1..10 : Digits[d] = b

digit_value(b) == (CHOOSE d \in 1..10 : Digits[d] = b) - 1

\* the value of a byte, for the order of Vec<u8> (ASCII)
byte_value(b) ==
    IF is_ascii_digit(b) THEN 48 + digit_value(b)
    ELSE CASE b = "+" -> 43 [] b = "-" -> 45 [] b = ":" -> 58
           [] b = "a" -> 97 [] b = "b" -> 98 [] b = "d" -> 100
           [] b = "e" -> 101 [] b = "i" -> 105 [] b = "l" -> 108
           [] OTHER -> 120

\* Ord for Vec<u8>: lexicographic on the byte values
RECURSIVE bytes_less(_, _)
bytes_less(x, y) ==
    IF Len(y) = 0 THEN FALSE
    ELSE IF Len(x) = 0 THEN TRUE
    ELSE IF byte_value(Head(x)) # byte_value(Head(y))
         THEN byte_value(Head(x)) < byte_value(Head(y))
    ELSE bytes_less(Tail(x), Tail(y))

\* line 17: Integer(i32)
I32_MAX == 2147483647

\* the decimal value of a run of digits; -1 when a byte is not a digit
\* (InvalidDigit) or the value passes I32_MAX (PosOverflow).  usize is wider
\* than i32, and i32 reaches one further below zero than above: a length or an
\* integer of ten digits is beyond every input of the model.
RECURSIVE digits_value(_, _)
digits_value(s, acc) ==
    IF Len(s) = 0 THEN acc
    ELSE IF ~is_ascii_digit(Head(s)) THEN -1
    ELSE IF acc > (I32_MAX - digit_value(Head(s))) \div 10 THEN -1
    ELSE digits_value(Tail(s), (acc * 10) + digit_value(Head(s)))

\* str::parse::<usize>: an optional "+", then one or more digits
parse_usize(s) ==
    LET digits == IF Len(s) > 1 /\ Head(s) = "+" THEN Tail(s) ELSE s
        v == digits_value(digits, 0)
    IN  IF Len(s) = 0 \/ s = <<"+">> \/ s = <<"-">> \/ v < 0
        THEN [ok |-> FALSE, value |-> 0]
        ELSE [ok |-> TRUE, value |-> v]

\* str::parse::<i32>: an optional "+" or "-", then one or more digits
parse_i32(s) ==
    LET signed == Len(s) > 1 /\ Head(s) \in {"+", "-"}
        digits == IF signed THEN Tail(s) ELSE s
        v == digits_value(digits, 0)
    IN  IF Len(s) = 0 \/ s = <<"+">> \/ s = <<"-">> \/ v < 0
        THEN [ok |-> FALSE, value |-> 0]
        ELSE [ok |-> TRUE, value |-> IF signed /\ Head(s) = "-" THEN 0 - v ELSE v]

\* ToString for usize and i32: no sign for zero and above, no leading zeros
RECURSIVE natural_to_string(_)
natural_to_string(n) ==
    IF n < 10 THEN <<Digits[n + 1]>>
    ELSE Append(natural_to_string(n \div 10), Digits[(n % 10) + 1])

to_string(n) == IF n < 0 THEN <<"-">> \o natural_to_string(0 - n) ELSE natural_to_string(n)

ByteString(bytes) == [kind |-> "ByteString", bytes |-> bytes]
Integer(int) == [kind |-> "Integer", int |-> int]
List(items) == [kind |-> "List", items |-> items]
Dictionary(entries) == [kind |-> "Dictionary", entries |-> entries]

\* a map that keeps its entries in the order they were inserted
btree_insert_at_end(entries, key, value) ==
    SelectSeq(entries, LAMBDA e : e.key # key) \o <<[key |-> key, value |-> value]>>

\* BTreeMap::insert: the entry takes its place in key order and replaces an
\* entry of the same key
btree_insert(entries, key, value) ==
    SelectSeq(entries, LAMBDA e : bytes_less(e.key, key))
    \o <<[key |-> key, value |-> value]>>
    \o SelectSeq(entries, LAMBDA e : bytes_less(key, e.key))

\* lines 63-119
RECURSIVE bencode(_)
RECURSIVE bencode_items(_)
RECURSIVE bencode_entries(_)
bencode(b) ==
    CASE b.kind = "ByteString" -> to_string(Len(b.bytes)) \o <<":">> \o b.bytes
      [] b.kind = "Integer" -> <<"i">> \o to_string(b.int) \o <<"e">>
      [] b.kind = "List" -> <<"l">> \o bencode_items(b.items) \o <<"e">>
      [] b.kind = "Dictionary" -> <<"d">> \o bencode_entries(b.entries) \o <<"e">>

bencode_items(items) ==
    IF Len(items) = 0 THEN <<>>
    ELSE bencode(Head(items)) \o bencode_items(Tail(items))

bencode_entries(entries) ==
    IF Len(entries) = 0 THEN <<>>
    ELSE bencode(ByteString(Head(entries).key)) \o bencode(Head(entries).value)
         \o bencode_entries(Tail(entries))

ParseOk(index, bencodable) == [ok |-> TRUE, index |-> index, bencodable |-> bencodable]
ParseErr(error_type, index) == [ok |-> FALSE, index |-> index, error_type |-> error_type]

\* slice.get(i)
get(bencoded_value, i) ==
    IF i < Len(bencoded_value)
    THEN [some |-> TRUE, byte |-> bencoded_value[i + 1]]
    ELSE [some |-> FALSE, byte |-> ""]

\* the `while next_char != stop` loops of parse_byte_string and parse_integer:
\* the index of the first `stop` at or after i, or the length when there is
\* none
RECURSIVE scan(_, _, _)
scan(bencoded_value, i, stop) ==
    IF i >= Len(bencoded_value) THEN Len(bencoded_value)
    ELSE IF bencoded_value[i + 1] = stop THEN i
    ELSE scan(bencoded_value, i + 1, stop)

\* lines 165-200
parse_byte_string(index, bencoded_value) ==
    IF ~get(bencoded_value, index).some THEN ParseErr("ParseByteString", index)
    ELSE
    LET i == scan(bencoded_value, index, ":")
    IN  IF ~get(bencoded_value, i).some THEN ParseErr("ParseByteStringLength", i)
        ELSE
        LET length == parse_usize(SubSeq(bencoded_value, index + 1, i))
        IN  IF ~length.ok THEN ParseErr("ParseByteStringLength", i)
            ELSE IF i + 1 + length.value > Len(bencoded_value)
                 THEN ParseErr("ParseByteString", i)
            ELSE ParseOk(i + 1 + length.value,
                         ByteString(SubSeq(bencoded_value, i + 2, i + 1 + length.value)))

\* lines 202-220
parse_integer(index, bencoded_value) ==
    IF ~get(bencoded_value, index).some THEN ParseErr("ParseInteger", index)
    ELSE
    LET i == scan(bencoded_value, index, "e")
    IN  IF ~get(bencoded_value, i).some THEN ParseErr("ParseInteger", i)
        ELSE
        LET integer == parse_i32(SubSeq(bencoded_value, index + 1, i))
        IN  IF ~integer.ok THEN ParseErr("ParseInteger", i)
            ELSE ParseOk(i + 1, Integer(integer.value))

RECURSIVE parse_bencoded_value(_, _)
RECURSIVE parse_list_from(_, _, _)
RECURSIVE parse_dictionary_from(_, _, _, _)

\* lines 222-239: the loop, with the items parsed so far
parse_list_from(i, bencoded_value, bencodables) ==
    LET next_char == get(bencoded_value, i)
    IN  IF ~next_char.some THEN ParseErr("ParseList", i)
        ELSE IF next_char.byte = "e" THEN ParseOk(i + 1, List(bencodables))
        ELSE
        LET item == parse_bencoded_value(i, bencoded_value)
        IN  IF ~item.ok THEN item
            ELSE parse_list_from(item.index, bencoded_value,
                                 Append(bencodables, item.bencodable))

parse_list(index, bencoded_value) == parse_list_from(index, bencoded_value, <<>>)

\* lines 241-275: the loop, with the map built so far; the error for a
\* missing byte is ParseDictionary before the first pair and
\* ParseByteStringLength after a pair
parse_dictionary_from(i, bencoded_value, bencodables, first) ==
    LET next_char == get(bencoded_value, i)
    IN  IF ~next_char.some
        THEN ParseErr(IF first THEN "ParseDictionary" ELSE "ParseByteStringLength", i)
        ELSE IF next_char.byte = "e" THEN ParseOk(i + 1, Dictionary(bencodables))
        ELSE
        LET pr == parse_bencoded_value(i, bencoded_value)
        IN  IF ~pr.ok THEN pr
            ELSE IF pr.bencodable.kind # "ByteString" THEN ParseErr("ParseDictionary", i)
            ELSE
            LET result == parse_bencoded_value(pr.index, bencoded_value)
            IN  IF ~result.ok THEN result
                ELSE parse_dictionary_from(
                         result.index, bencoded_value,
                         btree_insert(bencodables, pr.bencodable.bytes, result.bencodable),
                         FALSE)

parse_dictionary(index, bencoded_value) ==
    parse_dictionary_from(index, bencoded_value, <<>>, TRUE)

\* lines 277-300
parse_bencoded_value(index, bencoded_value) ==
    LET b == get(bencoded_value, index)
    IN  IF ~b.some THEN ParseErr("ParseValue", index)
        ELSE IF is_ascii_digit(b.byte) THEN parse_byte_string(index, bencoded_value)
        ELSE IF b.byte = "i" THEN parse_integer(index + 1, bencoded_value)
        ELSE IF b.byte = "l" THEN parse_list(index + 1, bencoded_value)
        ELSE IF b.byte = "d" THEN parse_dictionary(index + 1, bencoded_value)
        ELSE ParseErr("ParseInitiate", index)

\* a decoder that stops at the end of the first value
bdecode_first_value(bencoded_bytes) == parse_bencoded_value(0, bencoded_bytes)

\* lines 302-317
bdecode(bencoded_bytes) ==
    LET pr == parse_bencoded_value(0, bencoded_bytes)
    IN  IF pr.ok /\ get(bencoded_bytes, pr.index).some
        THEN ParseErr("ParseEnd", pr.index)
        ELSE pr


(***************************************************************************)
(* The variables of a state machine that is not running                    *)
(***************************************************************************)
NoCall == [op |-> "new", piece |-> 0, offset |-> 0, bf |-> <<>>, ret |-> NoneReturned]

NotYet == [done |-> FALSE]
Done(value) == [done |-> TRUE, value |-> value]

NoTorrent == Torrent_new(1, 1, 1)

SchedulerIdle ==
    /\ last = NoCall
    /\ arrivals = [k \in {} |-> 0]
    /\ panicked = FALSE
    /\ odd = 0
    /\ advertised = <<>>
    /\ served = <<>>
    /\ handed = [k \in {} |-> 0]

CodecIdle ==
    /\ document = <<>>
    /\ tokens = 0
    /\ decoded = NotYet
    /\ encoded = NotYet
    /\ redecoded = NotYet

EngineIdle ==
    /\ engine = [pc |-> "off", index |-> 0]
    /\ worker = <<>>
    /\ connection = <<>>
    /\ link = <<>>
    /\ pending = <<>>
    /\ traffic = <<>>
    /\ peer = <<>>
    /\ poisoned = "no"

NoField ==
    [bf |-> <<>>, len |-> 0, origin |-> "none", op |-> "none", bit |-> 0,
     ok |-> TRUE, val |-> FALSE, before |-> <<>>, sets |-> 0]

NoDisk == [files |-> <<>>, results |-> <<>>]

NoFrame == [bytes |-> <<>>, result |-> NotYet]

UtilIdle ==
    /\ field = NoField
    /\ compact = [bytes |-> <<>>, result |-> NotYet]
    /\ parsed = NoFrame
    /\ disk = NoDisk

(***************************************************************************)
(* The scheduler driven through its public operations (SpecTorrent): any   *)
(* geometry a metainfo file can give, any bitfield and any piece message a *)
(* peer can send.                                                          *)
(***************************************************************************)
\* meta_info_file.rs:45-61: one piece per 20-byte digest, ceil(total / piece)
\* of its total length by its piece length: <<piece_length, total_length>>
Geometries ==
    {<<pl, ((n - 1) * pl) + l>> : pl \in 1..MaxPieceLength, n \in 1..MaxPieces,
                                   l \in 1..MaxPieceLength} \cap
    {g \in (1..MaxPieceLength) \X (1..(MaxPieces * MaxPieceLength)) :
        CeilDiv(g[2], g[1]) <= MaxPieces}

\* a bitfield message carries raw bytes: a byte with the one bit of a piece
\* index the geometry can hold, and 0 and 255 for no piece and every piece
BitfieldBytes == {0, 255} \cup {Pow2(7 - k) : k \in 0..MaxPieces}

\* the empty bitfield covers no index at all
BitFields == {<<>>} \cup {<<b>> : b \in BitfieldBytes}

\* payloads of a piece message: every length up to MaxData
DataBytes == {1}
Payloads == {[i \in 1..n |-> v] : n \in 0..MaxData, v \in DataBytes}

\* the coordinates a piece message can name: a piece index up to one past the
\* last piece, and the offset of a block of the geometry
Offsets == {FIXED_BLOCK_SIZE * k : k \in 0..(MaxPieceLength - 1)}
PieceIndexes(t) == 0..t.total_pieces
BlockOffsets(t) ==
    {FIXED_BLOCK_SIZE * k : k \in 0..(number_of_blocks_of(t.piece_length) - 1)}

\* the payload length an honest peer sends for (piece, offset)
expected_length(t, piece_index, offset) ==
    LET index == position_of_block(t.in_progress_blocks, piece_index, offset)
    IN  IF index = 0 THEN FIXED_BLOCK_SIZE
        ELSE t.in_progress_blocks[index].block_length

InitTorrent ==
    /\ \E g \in Geometries :
           torrent = Torrent_new(CeilDiv(g[2], g[1]), g[1], g[2])
    /\ SchedulerIdle
    /\ CodecIdle
    /\ EngineIdle
    /\ UtilIdle

CallGetNextBlock(bf) ==
    /\ ~panicked
    /\ LET r == get_next_block(torrent, bf)
       IN  /\ torrent' = r.t
           /\ last' = [NoCall EXCEPT !.op = "get_next_block", !.bf = bf, !.ret = r.ret]
           /\ panicked' = r.panic
           /\ handed' = IF r.ret.some THEN tally(handed, <<r.ret.piece, r.ret.offset>>)
                        ELSE handed
    /\ UNCHANGED <<arrivals, odd, advertised, served, codecVars, engineVars, utilVars>>

CallFillBlock(piece_index, offset, data) ==
    /\ ~panicked
    /\ LET honest == Len(data) = expected_length(torrent, piece_index, offset)
       IN  /\ honest \/ odd < MaxOddPayloads
           /\ odd' = IF honest THEN odd ELSE odd + 1
    /\ LET r == fill_block(torrent, piece_index, offset, data)
       IN  /\ torrent' = r.t
           /\ last' = [NoCall EXCEPT !.op = "fill_block", !.piece = piece_index,
                                     !.offset = offset]
           /\ panicked' = r.panic
    /\ arrivals' = tally(arrivals, <<piece_index, offset>>)
    /\ UNCHANGED <<advertised, served, handed, codecVars, engineVars, utilVars>>

NextTorrent ==
    \/ \E bf \in BitFields : CallGetNextBlock(bf)
    \/ \E p \in PieceIndexes(torrent), o \in BlockOffsets(torrent), d \in Payloads :
           CallFillBlock(p, o, d)

SpecTorrent == InitTorrent /\ [][NextTorrent]_vars

(***************************************************************************)
(* A download from one peer (SpecDownload): the peer's bitfield stays as   *)
(* it is, and the peer answers each block handed out to it with a piece    *)
(* message for the piece, offset and length that was requested.            *)
(***************************************************************************)
\* the byte of a peer that has the pieces 0..n-1, its spare bits zero
have_all(n) == <<255 - (Pow2(8 - n) - 1)>>

DownloadBitFields == BitFields \cup {have_all(n) : n \in 1..MaxPieces}

InitDownload ==
    /\ \E g \in Geometries :
           torrent = Torrent_new(CeilDiv(g[2], g[1]), g[1], g[2])
    /\ advertised \in DownloadBitFields
    /\ served = <<>>
    /\ handed = [k \in {} |-> 0]
    /\ last = NoCall
    /\ arrivals = [k \in {} |-> 0]
    /\ panicked = FALSE
    /\ odd = 0
    /\ CodecIdle
    /\ EngineIdle
    /\ UtilIdle

\* main.rs:277-283: the next block for the peer
NextBlock ==
    /\ ~panicked
    /\ LET r == get_next_block(torrent, advertised)
       IN  /\ torrent' = r.t
           /\ last' = [NoCall EXCEPT !.op = "get_next_block", !.bf = advertised,
                                     !.ret = r.ret]
           /\ panicked' = r.panic
           /\ served' = IF r.ret.some THEN Append(served, r.ret) ELSE served
           /\ handed' = IF r.ret.some THEN tally(handed, <<r.ret.piece, r.ret.offset>>)
                        ELSE handed
    /\ UNCHANGED <<arrivals, odd, advertised, codecVars, engineVars, utilVars>>

\* main.rs:345-352: the piece message that answers the block handed out last
FillRequested ==
    /\ ~panicked
    /\ Len(torrent.in_progress_blocks) > 0
    /\ LET asked == served[Len(served)]
           r == fill_block(torrent, asked.piece, asked.offset,
                           [i \in 1..asked.length |-> 1])
       IN  /\ torrent' = r.t
           /\ last' = [NoCall EXCEPT !.op = "fill_block", !.piece = asked.piece,
                                     !.offset = asked.offset]
           /\ panicked' = r.panic
           /\ arrivals' = tally(arrivals, <<asked.piece, asked.offset>>)
    /\ UNCHANGED <<odd, advertised, served, handed, codecVars, engineVars, utilVars>>

NextDownload ==
    \/ NextBlock
    \/ FillRequested

SpecDownload == InitDownload /\ [][NextDownload]_vars

(***************************************************************************)
(* The codec driven through bdecode and bencode (SpecBencode): a document  *)
(* is put together from tokens, decoded, and the value encoded again.      *)
(***************************************************************************)
\* the pieces documents are made of: the openers and the closer, byte strings
\* and integers in canonical form, and the forms parse::<usize> and
\* parse::<i32> also take (a leading zero, a sign)
Tokens ==
    {<<"d">>, <<"l">>, <<"e">>,
     <<"1", ":", "a">>, <<"1", ":", "b">>, <<"0", "1", ":", "a">>,
     <<"i", "1", "e">>, <<"i", "0", "1", "e">>, <<"i", "-", "0", "e">>}

\* a document bdecode has not rejected before its last byte: one it accepts,
\* or one that ends where it needs more bytes
extendable(bytes) ==
    LET r == bdecode(bytes) IN r.ok \/ r.index = Len(bytes)

InitBencode ==
    /\ torrent = NoTorrent
    /\ SchedulerIdle
    /\ CodecIdle
    /\ EngineIdle
    /\ UtilIdle

\* a further token of the document
AppendToken(token) ==
    /\ ~decoded.done
    /\ tokens < MaxTokens
    /\ extendable(document)
    /\ document' = document \o token
    /\ tokens' = tokens + 1
    /\ UNCHANGED <<decoded, encoded, redecoded, torrent, schedulerVars, engineVars, utilVars>>

CallBdecode ==
    /\ ~decoded.done
    /\ decoded' = Done(bdecode(document))
    /\ UNCHANGED <<document, tokens, encoded, redecoded, torrent, schedulerVars, engineVars, utilVars>>

CallBencode ==
    /\ decoded.done /\ decoded.value.ok
    /\ ~encoded.done
    /\ encoded' = Done(bencode(decoded.value.bencodable))
    /\ UNCHANGED <<document, tokens, decoded, redecoded, torrent, schedulerVars,
                   engineVars, utilVars>>

\* the encoded bytes decoded again
CallBdecodeEncoded ==
    /\ encoded.done
    /\ ~redecoded.done
    /\ redecoded' = Done(bdecode(encoded.value))
    /\ UNCHANGED <<document, tokens, decoded, encoded, torrent, schedulerVars,
                   engineVars, utilVars>>

NextBencode ==
    \/ \E token \in Tokens : AppendToken(token)
    \/ CallBdecode
    \/ CallBencode
    \/ CallBdecodeEncoded

SpecBencode == InitBencode /\ [][NextBencode]_vars

(***************************************************************************)
(* The engine (main.rs): one worker thread per connected peer, all sharing *)
(* the scheduler behind a RwLock, and the main thread that connects the    *)
(* peers in turn, joins the workers and writes the files.                  *)
(*                                                                         *)
(* A read of the socket and the handling of what was read are one step; a  *)
(* step never spans two acquisitions of the lock.  A panic of a thread     *)
(* that holds the write guard poisons the lock, and every later            *)
(* read().unwrap() or write().unwrap() panics in its turn.                 *)
(***************************************************************************)
\* main.rs:41
MAX_IN_PROGRESS_REQUESTS_PER_CONNECTION == 1

\* the interested frames of a connection are counted up to this number
MaxInterestedCounted == 2

Peers == 1..MaxPeers

Message(type, index, offset, bytes) ==
    [type |-> type, index |-> index, offset |-> offset, bytes |-> bytes]

KeepAlive == Message("KeepAlive", 0, 0, <<>>)
Choke == Message("Choke", 0, 0, <<>>)
UnChoke == Message("UnChoke", 0, 0, <<>>)
Interested == Message("Interested", 0, 0, <<>>)
NotInterested == Message("NotInterested", 0, 0, <<>>)
Have(index) == Message("Have", index, 0, <<>>)
BitFieldMessage(bytes) == Message("BitField", 0, 0, bytes)
Request(index, begin, length) == Message("Request", index, begin, <<length>>)
Piece(index, offset, data) == Message("Piece", index, offset, data)

\* a setter that adds the mask of the bit to the byte instead of or-ing it in
set_adding(bf, bit) ==
    LET byte == bit \div 8
        offset_in_byte == bit % 8
    IN  IF byte + 1 > Len(bf) THEN bf
        ELSE [bf EXCEPT ![byte + 1] = (@ + Pow2(7 - offset_in_byte)) % 256]

\* bitfield.rs:24-49: the bit is set when its byte exists; the caller in
\* main.rs:320-322 does not look at the result
set(bf, bit) ==
    LET byte == bit \div 8
        offset_in_byte == bit % 8
    IN  IF byte + 1 > Len(bf) THEN bf
        ELSE IF is_set(bf, bit).val THEN bf
        ELSE [bf EXCEPT ![byte + 1] = @ + Pow2(7 - offset_in_byte)]

\* the bitfield of a peer that has every piece: bits 0..n-1 of one byte
RECURSIVE full_bitfield_below(_)
full_bitfield_below(n) == IF n = 0 THEN <<0>> ELSE set(full_bitfield_below(n - 1), n - 1)

full_bitfield(t) == full_bitfield_below(t.total_pieces)

\* connection.rs:89-98
PeerConnection_new_fields ==
    [is_local_interested |-> FALSE,
     is_choked |-> TRUE,
     bitfield |-> [some |-> FALSE, bytes |-> <<>>],
     in_progress_requests |-> 0]

\* tracker.rs:27-40: the identifier of a peer the tracker listed with its
\* "peer id" is the advertised one; a peer that came as a bare address gets
\* the 20 characters of random_string()
Peer_from(tracker_peer) ==
    IF tracker_peer = "Peer" THEN "advertised" ELSE "synthesized"

TrackerPeers == {"Peer", "SocketAddr"}

\* the peer identifiers a reply can carry: the one the tracker advertised, the
\* 20 characters the client drew, any other
PeerIds == {"advertised", "synthesized", "other"}

\* what comes of the handshake: the write of ours, the read of 68 bytes under
\* HANDSHAKE_READ_TIMEOUT, whether Handshake::new finds its fields in them
\* (messages.rs:181-209), and the info-hash and peer-id it finds
NoHandshake(write_ok, read) ==
    [write_ok |-> write_ok, read |-> read, parses |-> FALSE,
     info_hash |-> "other", peer_id |-> "other"]

Replies ==
    {NoHandshake(FALSE, "error"), NoHandshake(TRUE, "error"),
     NoHandshake(TRUE, "timeout"), NoHandshake(TRUE, "ok")}
    \cup {[write_ok |-> TRUE, read |-> "ok", parses |-> TRUE,
           info_hash |-> h, peer_id |-> p] :
              h \in {"local", "other"}, p \in PeerIds}

\* a comparison that looks at the info-hash alone
handshake_matches_info_hash(reply, peer_id) == reply.info_hash = "local"

\* connection.rs:76
handshake_matches(reply, peer_id) ==
    reply.info_hash = "local" /\ reply.peer_id = peer_id

\* connection.rs:40-102: "Ok", or the SendError
PeerConnection_new(reply, peer_id) ==
    IF ~reply.write_ok THEN "Write"
    ELSE IF reply.read = "error" THEN "ReturnHandshakeRead"
    ELSE IF reply.read = "timeout" THEN "ReturnHandshakeReadTimeOut"
    ELSE IF ~reply.parses THEN "HandshakeParse"
    ELSE IF handshake_matches(reply, peer_id) THEN "Ok"
    ELSE "UnexpectedInfoHashOrPeerId"

\* main.rs:232-240: the worker is spawned on Ok
handshake_accepted(reply, peer_id) == PeerConnection_new(reply, peer_id) = "Ok"

\* main.rs:278-283: the filter_map over 0..to_request, under the write guard
RECURSIVE collect_blocks(_, _, _)
collect_blocks(t, bitfield, to_request) ==
    IF to_request = 0 THEN [t |-> t, blocks |-> <<>>, panic |-> FALSE]
    ELSE IF ~bitfield.some THEN [t |-> t, blocks |-> <<>>, panic |-> TRUE]
    ELSE
    LET r == get_next_block(t, bitfield.bytes)
    IN  IF r.panic THEN [t |-> r.t, blocks |-> <<>>, panic |-> TRUE]
        ELSE
        LET rest == collect_blocks(r.t, bitfield, to_request - 1)
        IN  [rest EXCEPT !.blocks = (IF r.ret.some THEN <<r.ret>> ELSE <<>>) \o @]

\* the outcome of a handler: the scheduler and the connection after it, the
\* frames it wrote, where the worker goes next, whether it panicked
\* (and of what) and whether the panic poisoned the lock (and of what)
Outcome(t, c, written, at, panic, poison) ==
    [t |-> t, c |-> c, written |-> written, at |-> at, panic |-> panic,
     poison |-> poison]

\* main.rs:275-291: the body of request_blocks.  usize arithmetic is computed
\* in the integers: a value below zero stands for the value 2^64 above it.
request_blocks_unchoked(t, connection_in, up, lock_poisoned) ==
    LET in_progress == connection_in.in_progress_requests
        to_request == MAX_IN_PROGRESS_REQUESTS_PER_CONNECTION - in_progress
        c == [connection_in EXCEPT !.in_progress_requests = @ + to_request]
    IN  IF lock_poisoned # "no" THEN Outcome(t, c, <<>>, "check", "poisoned", "no")
        ELSE
        LET got == collect_blocks(t, c.bitfield, to_request)
        IN  IF got.panic THEN Outcome(got.t, c, <<>>, "check", "peer", "peer")
            ELSE IF Len(got.blocks) > 0 /\ ~up
                 THEN Outcome(got.t, c, <<>>, "check", "write", "write")
            ELSE Outcome(got.t, c,
                         [k \in 1..Len(got.blocks) |->
                             Request(got.blocks[k].piece, got.blocks[k].offset,
                                     got.blocks[k].length)],
                         "check", "no", "no")

\* a request_blocks that does not look at is_choked
request_blocks_when_choked(t, connection_in, up, lock_poisoned) ==
    request_blocks_unchoked(t, connection_in, up, lock_poisoned)

\* main.rs:272-293
request_blocks(t, connection_in, up, lock_poisoned) ==
    IF connection_in.is_choked
    THEN Outcome(t, connection_in, <<>>, "check", "no", "no")
    ELSE request_blocks_unchoked(t, connection_in, up, lock_poisoned)

\* a frame other than a request: write_message(..).unwrap(), no guard held
write_frame(t, c, up, frame) ==
    IF up THEN Outcome(t, c, <<frame>>, "check", "no", "no")
    ELSE Outcome(t, c, <<>>, "check", "write", "no")

\* main.rs:295-360, up to the release of the guard taken for fill_block
process_message(t, message, c, up, lock_poisoned) ==
    CASE message.type = "KeepAlive" -> write_frame(t, c, up, KeepAlive)
      [] message.type = "Choke" ->
            Outcome(t, [c EXCEPT !.is_choked = TRUE], <<>>, "check", "no", "no")
      [] message.type = "UnChoke" ->
            request_blocks(t, [c EXCEPT !.is_choked = FALSE], up, lock_poisoned)
      [] message.type \in {"Interested", "NotInterested"} ->
            Outcome(t, c, <<>>, "check", "no", "no")
      [] message.type = "Have" ->
            IF lock_poisoned # "no" THEN Outcome(t, c, <<>>, "check", "poisoned", "no")
            ELSE IF message.index >= t.total_pieces
                 THEN Outcome(t, c, <<>>, "check", "no", "no")
            ELSE write_frame(t,
                     [c EXCEPT !.bitfield.bytes = set(@, message.index),
                               !.is_local_interested = TRUE], up, Interested)
      [] message.type = "BitField" ->
            write_frame(t,
                [c EXCEPT !.is_local_interested = TRUE,
                          !.bitfield = [some |-> TRUE, bytes |-> message.bytes]], up,
                Interested)
      [] message.type = "Request" ->
            IF lock_poisoned # "no" THEN Outcome(t, c, <<>>, "check", "poisoned", "no")
            ELSE Outcome(t, c, <<>>, "check", "no", "no")
      [] message.type = "Piece" ->
            IF Len(message.bytes) = 0 THEN Outcome(t, c, <<>>, "check", "no", "no")
            ELSE IF lock_poisoned # "no"
                 THEN Outcome(t, c, <<>>, "check", "poisoned", "no")
            ELSE
            LET f == fill_block(t, message.index, message.offset, message.bytes)
            IN  IF f.panic THEN Outcome(f.t, c, <<>>, "check", "peer", "peer")
                ELSE Outcome(f.t, c, <<>>, "request", "no", "no")

(***************************************************************************)
(* The engine as a state machine (Spec)                                    *)
(***************************************************************************)
\* the geometries of the engine runs: whole blocks per piece and a last piece
\* of one short block
EngineGeometries ==
    {<<FIXED_BLOCK_SIZE, FIXED_BLOCK_SIZE + 1>>,
     <<2 * FIXED_BLOCK_SIZE, (2 * FIXED_BLOCK_SIZE) + 1>>}

Running(at) == [status |-> "running", at |-> at, why |-> "no"]
Stopped(status, why) == [status |-> status, at |-> "read", why |-> why]

ones(length) == [i \in 1..length |-> 1]

\* what an arbitrary peer may send next
ArbitraryMessages(t) ==
    {KeepAlive, Choke, UnChoke, Interested, NotInterested}
    \cup {Have(i) : i \in {0, t.total_pieces}}
    \cup {BitFieldMessage(bf) : bf \in {<<>>, <<0>>, full_bitfield(t)}}
    \cup {Request(i, 0, FIXED_BLOCK_SIZE) : i \in {0, t.total_pieces}}
    \cup UNION {{Piece(t.in_progress_blocks[k].piece_index,
                       t.in_progress_blocks[k].offset, d) :
                     d \in {<<>>, ones(t.in_progress_blocks[k].block_length)}} :
                 k \in 1..Len(t.in_progress_blocks)}
    \cup {Piece(t.total_pieces - 1, 0, ones(1))}

\* what a seeder sends next: its bitfield, an unchoke, and then the block of
\* each request frame it was sent
SeederMessages(w) ==
    CASE peer[w].next = "bitfield" -> {BitFieldMessage(full_bitfield(torrent))}
      [] peer[w].next = "unchoke" -> {UnChoke}
      [] OTHER ->
            IF Len(pending[w]) = 0 THEN {}
            ELSE {Piece(Head(pending[w]).piece, Head(pending[w]).offset,
                        ones(Head(pending[w]).length))}

Incoming(w) ==
    IF peer[w].kind = "seeder" THEN SeederMessages(w) ELSE ArbitraryMessages(torrent)

seeder_after(next) ==
    CASE next = "bitfield" -> "unchoke" [] next = "unchoke" -> "serve" [] OTHER -> next

\* the request frames of a connection that no piece message with a payload
\* has answered
answered(requests, message) ==
    LET index == first_of({k \in 1..Len(requests) :
                              /\ requests[k].piece = message.index
                              /\ requests[k].offset = message.offset})
    IN  IF message.type # "Piece" \/ Len(message.bytes) = 0 \/ index = 0
        THEN requests
        ELSE SubSeq(requests, 1, index - 1) \o SubSeq(requests, index + 1, Len(requests))

InitEngine ==
    /\ \E g \in EngineGeometries :
           torrent = Torrent_new(CeilDiv(g[2], g[1]), g[1], g[2])
    /\ engine = [pc |-> "connect", index |-> 1]
    /\ worker = [w \in Peers |-> Stopped("idle", "no")]
    /\ connection = [w \in Peers |-> PeerConnection_new_fields]
    /\ link = [w \in Peers |-> "down"]
    /\ pending = [w \in Peers |-> <<>>]
    /\ traffic = [w \in Peers |-> [balance |-> 0, interested |-> 0]]
    /\ peer \in {p \in [Peers -> {[kind |-> "seeder", next |-> "bitfield"],
                                     [kind |-> "arbitrary", next |-> "any"]}] :
                     Cardinality({w \in Peers : p[w].kind = "arbitrary"})
                         <= MaxArbitraryPeers}
    /\ poisoned = "no"
    /\ SchedulerIdle
    /\ CodecIdle
    /\ UtilIdle

\* the frames of one type among those a handler wrote
frames_of(written, type) == SelectSeq(written, LAMBDA f : f.type = type)

\* the effect of a handler on the state of worker w; the request frames it
\* wrote await their answers.  A handler that goes on to line 352 has accepted
\* a piece message.
Apply(w, r, requests) ==
    /\ torrent' = r.t
    /\ pending' = [pending EXCEPT ![w] =
           requests \o [k \in 1..Len(frames_of(r.written, "Request")) |->
                           [piece |-> frames_of(r.written, "Request")[k].index,
                            offset |-> frames_of(r.written, "Request")[k].offset,
                            length |-> frames_of(r.written, "Request")[k].bytes[1]]]]
    /\ traffic' = [traffic EXCEPT
           ![w].balance = (@ + Len(frames_of(r.written, "Request")))
                              - (IF r.at = "request" THEN 1 ELSE 0),
           ![w].interested =
               IF @ + Len(frames_of(r.written, "Interested")) > MaxInterestedCounted
               THEN MaxInterestedCounted
               ELSE @ + Len(frames_of(r.written, "Interested"))]
    /\ connection' = [connection EXCEPT ![w] = r.c]
    /\ worker' = [worker EXCEPT ![w] = IF r.panic # "no"
                                        THEN Stopped("panicked", r.panic)
                                        ELSE Running(r.at)]
    /\ poisoned' = IF r.poison # "no" THEN r.poison ELSE poisoned

\* main.rs:125-131, 181, 232-240 and connection.rs:40-102: connect to the next
\* peer and, when the handshake is accepted, spawn its worker
Connect(w, tracker_peer, reply) ==
    /\ engine.pc = "connect" /\ engine.index = w
    /\ IF handshake_accepted(reply, Peer_from(tracker_peer))
       THEN /\ worker' = [worker EXCEPT ![w] = Running("read")]
            /\ link' = [link EXCEPT ![w] = "up"]
       ELSE /\ worker' = [worker EXCEPT ![w] = Stopped("none", "no")]
            /\ UNCHANGED link
    /\ engine' = IF w = MaxPeers THEN [pc |-> "join", index |-> 1]
                 ELSE [engine EXCEPT !.index = w + 1]
    /\ UNCHANGED <<torrent, connection, pending, traffic, peer, poisoned,
                 schedulerVars, codecVars, utilVars>>

\* messages.rs:139-140, 158-160: the frames Message::new refuses; read_message
\* returns their error
unimplemented(message) == message.type = "Request"

\* main.rs:186-194, 217-221: a frame was read; the message it carries is
\* handled, and a frame that carries none ends the loop
ReadMessage(w, message) ==
    /\ worker[w].status = "running" /\ worker[w].at = "read"
    /\ message \in Incoming(w)
    /\ IF unimplemented(message)
       THEN /\ worker' = [worker EXCEPT ![w] = Stopped("exited", "parse")]
            /\ UNCHANGED <<torrent, pending, traffic, connection, poisoned>>
       ELSE Apply(w, process_message(torrent, message, connection[w], link[w] = "up",
                                     poisoned),
                  answered(pending[w], message))
    /\ peer' = [peer EXCEPT ![w].next = seeder_after(@)]
    /\ UNCHANGED <<engine, link,
                 schedulerVars, codecVars, utilVars>>

\* main.rs:352-353: after fill_block, one request fewer is in progress and
\* request_blocks runs.  The subtraction at zero panics in a build with
\* overflow checks and wraps in a build without.
RequestAfterPiece(w, overflow_checks) ==
    /\ worker[w].status = "running" /\ worker[w].at = "request"
    /\ overflow_checks => connection[w].in_progress_requests = 0
    /\ LET c == [connection[w] EXCEPT !.in_progress_requests = @ - 1]
       IN  IF overflow_checks
           THEN Apply(w, Outcome(torrent, connection[w], <<>>, "check", "peer", "no"),
                      pending[w])
           ELSE Apply(w, request_blocks(torrent, c, link[w] = "up", poisoned),
                      pending[w])
    /\ UNCHANGED <<engine, link, peer,
                 schedulerVars, codecVars, utilVars>>

\* an end of iteration that does not look at the scheduler
after_iteration_goes_on(t, lock_poisoned) ==
    IF lock_poisoned # "no" THEN Stopped("panicked", "poisoned")
    ELSE Running("read")

\* main.rs:225-228: done = torrent.read().unwrap().are_we_done_yet()
after_iteration(t, lock_poisoned) ==
    IF lock_poisoned # "no" THEN Stopped("panicked", "poisoned")
    ELSE IF are_we_done_yet(t) THEN Stopped("exited", "done")
    ELSE Running("read")

\* main.rs:225-228: the end of a loop iteration that handled a message
LoopCheck(w) ==
    /\ worker[w].status = "running" /\ worker[w].at = "check"
    /\ worker' = [worker EXCEPT ![w] = after_iteration(torrent, poisoned)]
    /\ UNCHANGED <<torrent, engine, connection, link, pending, traffic, peer, poisoned,
                 schedulerVars, codecVars, utilVars>>

\* main.rs:212-216, 225-228: the read ends in WouldBlock or TimedOut, and the
\* iteration ends as every other
ReadTimeout(w) ==
    /\ worker[w].status = "running" /\ worker[w].at = "read"
    /\ worker' = [worker EXCEPT ![w] = after_iteration(torrent, poisoned)]
    /\ UNCHANGED <<torrent, engine, connection, link, pending, traffic, peer, poisoned,
                 schedulerVars, codecVars, utilVars>>

\* main.rs:195-211, 217-221: the read ends in an error of the connection
ReadError(w) ==
    /\ worker[w].status = "running" /\ worker[w].at = "read"
    /\ link[w] = "down"
    /\ worker' = [worker EXCEPT ![w] = Stopped("exited", "connection")]
    /\ UNCHANGED <<torrent, engine, connection, link, pending, traffic, peer, poisoned,
                 schedulerVars, codecVars, utilVars>>

\* the connection to a peer fails: from here on a read finds at most what
\* was sent before, and a write fails
Disconnect(w) ==
    /\ link[w] = "up"
    /\ link' = [link EXCEPT ![w] = "down"]
    /\ UNCHANGED <<torrent, engine, worker, connection, pending, traffic, peer, poisoned,
                 schedulerVars, codecVars, utilVars>>

\* main.rs:146-150: cjh.join().unwrap() on the workers in turn
Join(w) ==
    /\ engine.pc = "join" /\ engine.index = w
    /\ worker[w].status \in {"none", "exited", "panicked"}
    /\ engine' = IF worker[w].status = "panicked" THEN [engine EXCEPT !.pc = "panicked"]
                 ELSE IF w = MaxPeers THEN [pc |-> "to_file", index |-> 0]
                 ELSE [engine EXCEPT !.index = w + 1]
    /\ UNCHANGED <<torrent, worker, connection, link, pending, traffic, peer, poisoned,
                 schedulerVars, codecVars, utilVars>>

\* main.rs:152-169: torrent.read().unwrap().to_file(files)
ToFile ==
    /\ engine.pc = "to_file"
    /\ engine' = [engine EXCEPT !.pc = IF poisoned # "no" THEN "panicked" ELSE "finished"]
    /\ UNCHANGED <<torrent, worker, connection, link, pending, traffic, peer, poisoned,
                 schedulerVars, codecVars, utilVars>>

WorkerStep(w) ==
    \/ \E message \in Incoming(w) : ReadMessage(w, message)
    \/ \E overflow_checks \in BOOLEAN : RequestAfterPiece(w, overflow_checks)
    \/ LoopCheck(w)
    \/ ReadTimeout(w)
    \/ ReadError(w)

EngineStep ==
    \/ \E w \in Peers, tracker_peer \in TrackerPeers, reply \in Replies :
           Connect(w, tracker_peer, reply)
    \/ \E w \in Peers : Join(w)
    \/ ToFile

NextEngine ==
    \/ \E w \in Peers : WorkerStep(w)
    \/ \E w \in Peers : Disconnect(w)
    \/ EngineStep

Spec == InitEngine /\ [][NextEngine]_vars

\* a seeder has sent what worker w has not read yet
Waiting(w) ==
    /\ worker[w] = Running("read")
    /\ peer[w].kind = "seeder"
    /\ Incoming(w) # {}

\* What the threads do of themselves: the main thread goes on; a worker ends
\* its loop iteration, leaves on a failed connection, asks for blocks after a
\* piece and reads what a seeder has sent.  Nothing obliges an arbitrary peer
\* to send, nor a connection to fail.  The last two conjuncts are the weak
\* fairness of RequestAfterPiece(w, _) and of ReadMessage(w, _) from a seeder,
\* written with the conditions that enable them: both steps leave the state
\* that enables them.
Fairness ==
    /\ WF_vars(EngineStep)
    /\ \A w \in Peers :
           /\ WF_vars(LoopCheck(w))
           /\ WF_vars(ReadTimeout(w))
           /\ WF_vars(ReadError(w))
           /\ []<>~(worker[w] = Running("request"))
           /\ []<>~Waiting(w)

FairSpec == Spec /\ Fairness

(***************************************************************************)
(* The bitfield driven through is_set and set (SpecBitField): a bitfield   *)
(* made from the raw bytes of a bitfield message, or made empty for a      *)
(* number of bits.                                                         *)
(***************************************************************************)
\* the bytes of a raw array: no bit, every bit, one bit at either end, and the
\* bytes of the test at bitfield.rs:125-133
ByteValues == {0, 1, 3, 5, 7, 128, 255}
RawBytes == UNION {[1..n -> ByteValues] : n \in 0..MaxBitfieldBytes}

\* the sizes a bitfield is made for and the indices it is asked about: up to
\* the first bit past the last byte
Sizes == 0..(8 * MaxBitfieldBytes)
Bits == 0..(8 * MaxBitfieldBytes)

\* bitfield.rs:27, 45, 48: Ok(()) when the byte of the bit exists
set_ok(bf, bit) == (bit \div 8) + 1 <= Len(bf)

Made(b, origin) ==
    [NoField EXCEPT !.bf = b.bf, !.len = b.len, !.origin = origin, !.before = b.bf]

InitBitField ==
    /\ field \in {Made(BitField_from(bytes), "from") : bytes \in RawBytes}
                 \cup {Made(BitField_new(size), "new") : size \in Sizes}
    /\ compact = [bytes |-> <<>>, result |-> NotYet]
    /\ parsed = NoFrame
    /\ disk = NoDisk
    /\ torrent = NoTorrent
    /\ SchedulerIdle
    /\ CodecIdle
    /\ EngineIdle

CallIsSet(bit) ==
    /\ LET r == is_set(field.bf, bit)
       IN  field' = [field EXCEPT !.op = "is_set", !.bit = bit, !.ok = r.ok,
                                  !.val = r.val, !.before = field.bf]
    /\ UNCHANGED <<compact, disk, parsed, torrent, schedulerVars, codecVars, engineVars>>

CallSet(bit) ==
    /\ field.sets < MaxSets
    /\ field' = [field EXCEPT !.bf = set(field.bf, bit), !.op = "set", !.bit = bit,
                              !.ok = set_ok(field.bf, bit), !.val = FALSE,
                              !.before = field.bf, !.sets = @ + 1]
    /\ UNCHANGED <<compact, disk, parsed, torrent, schedulerVars, codecVars, engineVars>>

NextBitField ==
    \/ \E bit \in Bits : CallIsSet(bit)
    \/ \E bit \in Bits : CallSet(bit)

SpecBitField == InitBitField /\ [][NextBitField]_vars

(***************************************************************************)
(* The compact peers of a tracker response (SpecTracker): the byte string  *)
(* under the key "peers" arrives byte by byte and is converted.            *)
(***************************************************************************)
PeerByteValues == {1, 2}

SocketAddrV4(ip, port) == [ip |-> ip, port |-> port]

u16_from_be_bytes(hi, lo) == (256 * hi) + lo

\* tracker.rs:77-84: the loop over i = 0, 6, 12, ..; the port is read from
\* peer_bytes[4] and peer_bytes[5] on every turn
RECURSIVE socket_addrs_from(_, _)
socket_addrs_from(peer_bytes, i) ==
    IF i >= Len(peer_bytes) THEN <<>>
    ELSE LET ip_bytes == SubSeq(peer_bytes, i + 1, i + 6)
             ip == <<ip_bytes[1], ip_bytes[2], ip_bytes[3], ip_bytes[4]>>
             port == u16_from_be_bytes(peer_bytes[5], peer_bytes[6])
         IN  <<SocketAddrV4(ip, port)>> \o socket_addrs_from(peer_bytes, i + 6)

\* tracker.rs:66-93
compact_peers(peer_bytes) ==
    IF Len(peer_bytes) % 6 = 0
    THEN [ok |-> TRUE, addrs |-> socket_addrs_from(peer_bytes, 0), error |-> "none"]
    ELSE [ok |-> FALSE, addrs |-> <<>>, error |-> "MisalignedPeers"]

InitTracker ==
    /\ compact = [bytes |-> <<>>, result |-> NotYet]
    /\ parsed = NoFrame
    /\ field = NoField
    /\ disk = NoDisk
    /\ torrent = NoTorrent
    /\ SchedulerIdle
    /\ CodecIdle
    /\ EngineIdle

\* a further byte of the byte string
AppendPeerByte(b) ==
    /\ ~compact.result.done
    /\ Len(compact.bytes) <= 6 * MaxEntries
    /\ compact' = [compact EXCEPT !.bytes = Append(@, b)]
    /\ UNCHANGED <<field, disk, parsed, torrent, schedulerVars, codecVars, engineVars>>

CallCompactPeers ==
    /\ ~compact.result.done
    /\ compact' = [compact EXCEPT !.result = Done(compact_peers(compact.bytes))]
    /\ UNCHANGED <<field, disk, parsed, torrent, schedulerVars, codecVars, engineVars>>

NextTracker ==
    \/ \E b \in PeerByteValues : AppendPeerByte(b)
    \/ CallCompactPeers

SpecTracker == InitTracker /\ [][NextTracker]_vars

(***************************************************************************)
(* Writing the files (SpecToFile): to_file on a finished download, with    *)
(* every outcome the file system can give for each file.                   *)
(***************************************************************************)
\* the declared lengths of the files of a metainfo: meta_info_file.rs:9-12, 34
FileLists == UNION {[1..n -> 1..MaxFileLength] : n \in 1..MaxFiles}

RECURSIVE sum_of_lengths(_, _)
sum_of_lengths(files, k) ==
    IF k = 0 THEN 0 ELSE files[k] + sum_of_lengths(files, k - 1)

\* what FsFile::create and write_all can do for one file
FileOutcomes == {"ok", "create_failed", "write_failed"}

\* torrent.rs:246-266: the map over the files; curr_pos moves on inside the
\* closure given to and_then, which runs when create has succeeded
RECURSIVE to_file_from(_, _, _, _, _)
to_file_from(data_buffer, files, outcomes, k, curr_pos) ==
    IF k > Len(files) THEN <<>>
    ELSE LET l == files[k]
             buff == SubSeq(data_buffer, curr_pos + 1, curr_pos + l)
             created == outcomes[k] # "create_failed"
             result == [ok |-> outcomes[k] = "ok",
                        contents |-> IF outcomes[k] = "ok" THEN buff ELSE <<>>]
         IN  <<result>> \o
             to_file_from(data_buffer, files, outcomes, k + 1,
                          IF created THEN curr_pos + l ELSE curr_pos)

\* torrent.rs:243-267
to_file(t, files, outcomes) == to_file_from(t.data_buffer, files, outcomes, 1, 0)

\* the buffer of a finished download: byte i of the content is i
finished_buffer(total_length) == [i \in 1..total_length |-> i]

InitToFile ==
    /\ \E files \in FileLists :
           /\ disk = [NoDisk EXCEPT !.files = files]
           /\ torrent = [NoTorrent EXCEPT !.data_buffer =
                             finished_buffer(sum_of_lengths(files, Len(files)))]
    /\ field = NoField
    /\ compact = [bytes |-> <<>>, result |-> NotYet]
    /\ parsed = NoFrame
    /\ SchedulerIdle
    /\ CodecIdle
    /\ EngineIdle

CallToFile(outcomes) ==
    /\ disk.results = <<>>
    /\ disk' = [disk EXCEPT !.results = to_file(torrent, disk.files, outcomes)]
    /\ UNCHANGED <<field, compact, parsed, torrent, schedulerVars, codecVars, engineVars>>

NextToFile ==
    \E outcomes \in [1..Len(disk.files) -> FileOutcomes] : CallToFile(outcomes)

SpecToFile == InitToFile /\ [][NextToFile]_vars

(***************************************************************************)
(* The parsing of a frame (SpecMessage): the body of a frame arrives byte  *)
(* by byte and Message::new is given the body and its length, as           *)
(* read_message does (connection.rs:131-141).                              *)
(***************************************************************************)
MaxFrameLength == 9

\* the bytes of a body: the ids of choke, have and piece, which are also the
\* bytes of small integers
FrameByteValues == {0, 4, 7}

\* Iterator::take(n).collect() and what it leaves in the iterator
take(bytes, n) == SubSeq(bytes, 1, IF n < Len(bytes) THEN n ELSE Len(bytes))
after_take(bytes, n) == SubSeq(bytes, (IF n < Len(bytes) THEN n ELSE Len(bytes)) + 1, Len(bytes))

\* util.rs:5-9: slice::split_at(4) panics on a slice of fewer than 4 bytes;
\* try_into on the 4 bytes it returns cannot fail
read_be_u32(input) ==
    IF Len(input) < 4 THEN [panic |-> TRUE, value |-> 0]
    ELSE [panic |-> FALSE,
          value |-> (((((input[1] * 256) + input[2]) * 256) + input[3]) * 256) + input[4]]

MessageOk(message) == [kind |-> "Ok", message |-> message, error |-> "none"]
MessageErr(error) == [kind |-> "Err", message |-> KeepAlive, error |-> error]
MessagePanic == [kind |-> "panic", message |-> KeepAlive, error |-> "none"]

\* messages.rs:112-163
Message_new(bytes, prefix_len) ==
    IF prefix_len = 0 THEN MessageOk(KeepAlive)
    ELSE IF Len(bytes) = 0 THEN MessageErr("IdMissing")
    ELSE
    LET id == Head(bytes)
        body == Tail(bytes)
    IN  CASE id = 0 -> MessageOk(Choke)
          [] id = 1 -> MessageOk(UnChoke)
          [] id = 2 -> MessageOk(Interested)
          [] id = 3 -> MessageOk(NotInterested)
          [] id = 4 ->
                LET index == read_be_u32(take(body, 4))
                IN  IF index.panic THEN MessagePanic
                    ELSE MessageOk(Have(index.value))
          [] id = 5 -> MessageOk(BitFieldMessage(take(body, prefix_len - 1)))
          [] id = 6 -> MessageErr("Unimplemented")
          [] id = 7 ->
                LET index == read_be_u32(take(body, 4))
                    offset == read_be_u32(take(after_take(body, 4), 4))
                IN  IF index.panic \/ offset.panic THEN MessagePanic
                    ELSE MessageOk(Piece(index.value, offset.value,
                                         take(after_take(after_take(body, 4), 4),
                                              prefix_len - 9)))
          [] id = 8 -> MessageErr("Unimplemented")
          [] OTHER -> MessageErr("Id")

InitMessage ==
    /\ parsed = NoFrame
    /\ field = NoField
    /\ compact = [bytes |-> <<>>, result |-> NotYet]
    /\ disk = NoDisk
    /\ torrent = NoTorrent
    /\ SchedulerIdle
    /\ CodecIdle
    /\ EngineIdle

\* a further byte of the body
AppendFrameByte(b) ==
    /\ ~parsed.result.done
    /\ Len(parsed.bytes) < MaxFrameLength
    /\ parsed' = [parsed EXCEPT !.bytes = Append(@, b)]
    /\ UNCHANGED <<field, compact, disk, torrent, schedulerVars, codecVars, engineVars>>

\* connection.rs:139-141: Message::new on the body and its length
CallMessageNew ==
    /\ ~parsed.result.done
    /\ parsed' = [parsed EXCEPT !.result = Done(Message_new(parsed.bytes, Len(parsed.bytes)))]
    /\ UNCHANGED <<field, compact, disk, torrent, schedulerVars, codecVars, engineVars>>

NextMessage ==
    \/ \E b \in FrameByteValues : AppendFrameByte(b)
    \/ CallMessageNew

SpecMessage == InitMessage /\ [][NextMessage]_vars

(***************************************************************************)
(* Properties of the scheduler                                             *)
(***************************************************************************)
total_length_of(t) == Len(t.data_buffer)

\* the length of piece p as the metainfo defines it
piece_length_of(t, p) ==
    IF p < t.total_pieces - 1 THEN t.piece_length
    ELSE total_length_of(t) % t.piece_length

RECURSIVE queued_blocks(_, _)
queued_blocks(pieces, k) ==
    IF k > Len(pieces) THEN 0
    ELSE Len(pieces[k].blocks) + queued_blocks(pieces, k + 1)

grid_count(t) ==
    Cardinality({pb \in UNION {{<<p, b>> : b \in DOMAIN t.completed_pieces[p]} :
                                p \in DOMAIN t.completed_pieces} :
                     t.completed_pieces[pb[1]][pb[2]].some})

in_flight(t, piece_index, offset) ==
    position_of_block(t.in_progress_blocks, piece_index, offset) # 0

\* the pieces of the active list the bitfield advertises
available(t, bf) ==
    {k \in 1..Len(t.pieces) :
        is_set(bf, t.pieces[k].index).ok /\ is_set(bf, t.pieces[k].index).val}

\* the geometries Torrent::new lays out as the metainfo means them: whole
\* blocks per piece and a shorter, non-empty last piece
regular_geometry(t) ==
    /\ t.piece_length % FIXED_BLOCK_SIZE = 0
    /\ total_length_of(t) % t.piece_length # 0

\* C5: no get_next_block call returns a piece index above total_pieces - 1, and
\* the returned index is the piece_index of the block pushed onto the
\* in-flight list.
C5_ReturnedIndexInRange ==
    (last.op = "get_next_block" /\ last.ret.some) =>
        /\ last.ret.piece <= torrent.total_pieces - 1
        /\ last.ret.piece =
             torrent.in_progress_blocks[Len(torrent.in_progress_blocks)].piece_index

\* C6: for every (piece, offset, length) get_next_block returns, offset + length
\* does not exceed the length of that piece.
C6_BlockInsidePiece ==
    (last.op = "get_next_block" /\ last.ret.some) =>
        last.ret.offset + last.ret.length <= piece_length_of(torrent, last.ret.piece)

\* C7: a piece message for a block that was already filled is tallied in
\* repeated_blocks and goes no further: no panic, and the tally of the block is
\* the number of its arrivals minus one.  Stated for the regular geometries.
C7_DuplicateTallied ==
    LET key == <<last.piece, last.offset>>
    IN  (/\ regular_geometry(torrent)
         /\ last.op = "fill_block" /\ key \in DOMAIN arrivals /\ arrivals[key] >= 2
         /\ torrent.completed_pieces[key[1]][key[2] \div FIXED_BLOCK_SIZE].some) =>
            /\ ~panicked
            /\ key \in DOMAIN torrent.repeated_blocks
            /\ torrent.repeated_blocks[key] = arrivals[key] - 1

\* C8: fill_block on an in-flight block writes the payload at
\* piece * piece_length + offset, changes no byte outside the byte range of
\* that block, adds one to completed_blocks and moves the block from the
\* in-flight list to the completed grid.  Stated for the regular geometries.
C8_FillEffect ==
    [][\A p \in 0..MaxPieces, o \in Offsets, d \in Payloads :
        (/\ regular_geometry(torrent)
         /\ CallFillBlock(p, o, d) /\ in_flight(torrent, p, o)) =>
            LET pos == (p * torrent.piece_length) + o
                len == expected_length(torrent, p, o)
            IN  /\ ~panicked'
                /\ \A i \in 1..Len(d) : torrent'.data_buffer[pos + i] = d[i]
                /\ \A i \in 1..total_length_of(torrent) :
                       (i <= pos \/ i > pos + len) =>
                           torrent'.data_buffer[i] = torrent.data_buffer[i]
                /\ torrent'.completed_blocks = torrent.completed_blocks + 1
                /\ ~in_flight(torrent', p, o)
                /\ torrent'.completed_pieces[p][o \div FIXED_BLOCK_SIZE].some
      ]_vars

\* C9: are_we_done_yet() is true exactly when every block Torrent::new created
\* has been filled: completed_blocks + |in_progress_blocks| + the lengths of
\* the dispatch queues = total_blocks, and completed_blocks <= total_blocks.
C9_DoneIffAllFilled ==
    /\ torrent.completed_blocks + Len(torrent.in_progress_blocks)
         + queued_blocks(torrent.pieces, 1) = torrent.total_blocks
    /\ torrent.completed_blocks <= torrent.total_blocks
    /\ grid_count(torrent) = torrent.completed_blocks
    /\ are_we_done_yet(torrent) <=>
           (Len(torrent.in_progress_blocks) = 0 /\ queued_blocks(torrent.pieces, 1) = 0)

\* a download of three blocks or more has just received its last block
C9_Witness ==
    /\ regular_geometry(torrent)
    /\ are_we_done_yet(torrent)
    /\ torrent.total_blocks >= 3
    /\ last.op = "fill_block"

C4_RoundTrip ==
    (decoded.done /\ decoded.value.ok /\ encoded.done) => encoded.value = document

(***************************************************************************)
(* Properties of the engine                                                *)
(***************************************************************************)
Connected(w) == worker[w].status \notin {"idle", "none"}

\* a peer that completed the handshake, advertises every piece, unchokes and
\* answers each request frame with the requested block
GoodPeer(w) == Connected(w) /\ peer[w].kind = "seeder"

\* the connection to a peer has failed, or its worker has left on an error of
\* a read
ConnectionFailed(w) ==
    /\ Connected(w)
    /\ link[w] = "down" \/ worker[w].why \in {"connection", "parse"}

Finished ==
    /\ are_we_done_yet(torrent)
    /\ \A w \in Peers : worker[w].status # "running"
    /\ engine.pc = "finished"

\* C1: in every fair run in which at least one peer completes the handshake,
\* sends a bitfield advertising every piece, unchokes and answers each request
\* frame with the requested block, and no connection fails, are_we_done_yet()
\* eventually becomes true, every worker leaves its read loop and the engine
\* calls to_file.  Stated for the runs in which no thread panics: every fair
\* run reaches a state where the download is finished, or where the premise
\* has failed (the peers are all connected or refused and none of them is such
\* a peer, or a connection has failed).
C1_EventuallyDone ==
    <>(\/ Finished
       \/ engine.pc # "connect" /\ \A w \in Peers : ~GoodPeer(w)
       \/ \E w \in Peers : ConnectionFailed(w)
       \/ \E w \in Peers : worker[w].status = "panicked")

\* the request frames of worker w whose block is still in flight
orphans(w) == {k \in 1..Len(pending[w]) :
                  in_flight(torrent, pending[w][k].piece, pending[w][k].offset)}

\* C2: after a worker has exited on a connection error with a block it
\* requested still in flight, a remaining worker whose peer is unchoked and
\* advertises all pieces still obtains a block from get_next_block while blocks
\* remain to be handed out.
C2_RemainingWorkerServed ==
    \A a \in Peers, b \in Peers :
        (/\ worker[a].status = "exited" /\ worker[a].why = "connection"
         /\ orphans(a) # {}
         /\ worker[b].status = "running"
         /\ ~connection[b].is_choked
         /\ connection[b].bitfield = [some |-> TRUE, bytes |-> full_bitfield(torrent)]
         /\ queued_blocks(torrent.pieces, 1) > 0)
        => get_next_block(torrent, connection[b].bitfield.bytes).ret.some

\* C3: a socket write failure or another connection-level error on one peer's
\* connection never makes a different worker panic, and never makes the
\* engine's join of the workers fail.
C3_ErrorsStayLocal ==
    /\ \A w \in Peers :
           (worker[w].status = "panicked" /\ worker[w].why = "poisoned")
           => poisoned # "write"
    /\ (engine.pc = "panicked" /\ engine.index \in Peers) =>
           /\ worker[engine.index].why # "write"
           /\ ~(worker[engine.index].why = "poisoned" /\ poisoned = "write")

(***************************************************************************)
(* Properties of Torrent::new                                              *)
(***************************************************************************)
\* C11: Torrent::new gives each of the pieces 0..N-2 exactly
\* floor(piece_length / BLOCK_SIZE) blocks, and one more when piece_length is
\* not a multiple of BLOCK_SIZE, and total_blocks is the number of blocks
\* placed in the dispatch queues.
C11_BlocksPerPiece ==
    last.op = "new" =>
        /\ \A k \in 1..(Len(torrent.pieces) - 1) :
               Len(torrent.pieces[k].blocks) =
                   (torrent.piece_length \div FIXED_BLOCK_SIZE)
                   + (IF torrent.piece_length % FIXED_BLOCK_SIZE # 0 THEN 1 ELSE 0)
        /\ torrent.total_blocks = queued_blocks(torrent.pieces, 1)

(***************************************************************************)
(* Properties of the handshake and of the worker loop                      *)
(***************************************************************************)
\* the reply came whole and carries the local info-hash and the peer-id held
\* for the peer
Matched(reply, peer_id) ==
    /\ reply.write_ok /\ reply.read = "ok" /\ reply.parses
    /\ reply.info_hash = "local"
    /\ reply.peer_id = peer_id

SendErrors ==
    {"Write", "ReturnHandshakeRead", "ReturnHandshakeReadTimeOut", "HandshakeParse",
     "UnexpectedInfoHashOrPeerId"}

\* C12: PeerConnection::new yields a connection, and a worker is spawned, only
\* if the 68-byte reply carries the local info-hash and the expected peer-id;
\* in every other case it returns one of its errors, no connection exists and
\* no worker runs.
C12_ConnectionOnlyOnMatch ==
    [][engine' # engine /\ engine.pc = "connect" =>
        \A tracker_peer \in TrackerPeers, reply \in Replies :
            Connect(engine.index, tracker_peer, reply) =>
                LET w == engine.index
                    peer_id == Peer_from(tracker_peer)
                IN  /\ (worker'[w].status = "running" \/ link'[w] = "up")
                           => Matched(reply, peer_id)
                    /\ ~Matched(reply, peer_id) =>
                           /\ PeerConnection_new(reply, peer_id) \in SendErrors
                           /\ worker'[w].status = "none"
                           /\ link'[w] = "down"
      ]_vars

\* one peer was refused at the handshake and the worker of another runs
C12_Witness ==
    \E a \in Peers, b \in Peers :
        /\ worker[a].status = "none" /\ link[a] = "down"
        /\ worker[b].status = "running" /\ link[b] = "up"

\* C13: for a peer the tracker returned in compact form, whose identifier was
\* synthesized locally, the handshake is accepted whenever the returned
\* info-hash is the local one, whatever peer-id the remote sends.
C13_CompactPeerAccepted ==
    [][engine' # engine /\ engine.pc = "connect" =>
        \A reply \in Replies :
            (/\ Connect(engine.index, "SocketAddr", reply)
             /\ reply.write_ok /\ reply.read = "ok" /\ reply.parses
             /\ reply.info_hash = "local")
            => (worker'[engine.index].status = "running" /\ link'[engine.index] = "up")
      ]_vars

\* a have or request message whose index is not below total_pieces, or a piece
\* message with an empty payload
violates_validation(t, message) ==
    \/ message.type \in {"Have", "Request"} /\ message.index >= t.total_pieces
    \/ message.type = "Piece" /\ Len(message.bytes) = 0

\* C14: after a have, request or piece message that violates validation, the
\* offending worker leaves its read loop, and the other workers are as they
\* were.
C14_BadPeerLeaves ==
    [][\A w \in Peers : \A message \in ArbitraryMessages(torrent) :
        (ReadMessage(w, message) /\ violates_validation(torrent, message)) =>
            /\ worker'[w].status # "running"
            /\ \A v \in Peers \ {w} : worker'[v] = worker[v]
      ]_vars

\* C15: a read that ends in TimedOut or WouldBlock leaves the connection flags
\* and the scheduler as they were and keeps the worker in its loop unless
\* are_we_done_yet() is true; a read that ends in an error of the connection
\* or of the parse makes the worker exit.
C15_TimeoutBenign ==
    [][\A w \in Peers :
        /\ ReadTimeout(w) =>
               /\ connection' = connection
               /\ torrent' = torrent
               /\ worker'[w] = IF are_we_done_yet(torrent)
                               THEN Stopped("exited", "done")
                               ELSE Running("read")
        /\ ReadError(w) => worker'[w].status = "exited"
        /\ \A message \in ArbitraryMessages(torrent) :
               (ReadMessage(w, message) /\ unimplemented(message))
               => worker'[w].status = "exited"
      ]_vars

\* the main thread is past the joins
Joined == engine.pc \notin {"connect", "join"}

RECURSIVE binary(_, _)
binary(b, w) ==
    IF w = 0 THEN <<>>
    ELSE IF b >= Pow2(w - 1) THEN <<1>> \o binary(b - Pow2(w - 1), w - 1)
    ELSE <<0>> \o binary(b, w - 1)

\* C17: for a bitfield built from a raw byte array B, is_set(i) returns
\* Ok(true) exactly when bit (7 - i mod 8) of B[i div 8] is 1, for every i
\* below 8 * len(B): index 0 is the most significant bit of byte 0.
C17_MsbFirst ==
    (field.origin = "from" /\ field.op = "is_set" /\ field.bit < 8 * Len(field.bf)) =>
        /\ field.ok
        /\ field.val <=>
               binary(field.bf[(field.bit \div 8) + 1], 8)[(field.bit % 8) + 1] = 1

\* is_set(14) on the bytes [1, 3] has returned Ok(true)
C17_Witness ==
    /\ field.origin = "from" /\ field.sets = 0
    /\ field.bf = <<1, 3>>
    /\ field.op = "is_set" /\ field.bit = 14
    /\ field.ok /\ field.val

\* the length in bits of a bitfield: the size it was created with, or the
\* bits of the raw bytes it was built from
length_in_bits(f) == IF f.origin = "new" THEN f.len ELSE 8 * Len(f.bf)

\* C18: is_set(i) and set(i) return the InvalidBit(i) error, and change
\* nothing, for every index i at or beyond the length in bits of the bitfield,
\* the padding bits of its last byte included.
C18_InvalidBitBeyondLength ==
    (field.op \in {"is_set", "set"} /\ field.bit >= length_in_bits(field)) =>
        /\ ~field.ok
        /\ field.bf = field.before

(***************************************************************************)
(* Properties of the compact peers                                         *)
(***************************************************************************)
\* C19: a compact peers byte string of length 6k decodes to k addresses in
\* order, the j-th with the octets at bytes 6j..6j+3 as its address and the
\* big-endian value of bytes 6j+4..6j+5 as its port; a length that is not a
\* multiple of 6 gives MisalignedPeers.
C19_EntriesDecodedInPlace ==
    compact.result.done =>
        LET bytes == compact.bytes
            r == compact.result.value
        IN  IF Len(bytes) % 6 = 0
            THEN /\ r.ok
                 /\ Len(r.addrs) = Len(bytes) \div 6
                 /\ \A j \in 0..((Len(bytes) \div 6) - 1) :
                        /\ r.addrs[j + 1].ip = SubSeq(bytes, (6 * j) + 1, (6 * j) + 4)
                        /\ r.addrs[j + 1].port =
                               (256 * bytes[(6 * j) + 5]) + bytes[(6 * j) + 6]
            ELSE ~r.ok /\ r.error = "MisalignedPeers"

(***************************************************************************)
(* Properties of to_file                                                   *)
(***************************************************************************)
\* C20: to_file gives the k-th declared file the bytes of the buffer from the
\* sum of the lengths of the files before it, for its own length, whatever
\* became of the files before it.
C20_EachFileItsBytes ==
    \A k \in 1..Len(disk.results) :
        disk.results[k].ok =>
            disk.results[k].contents =
                SubSeq(torrent.data_buffer, sum_of_lengths(disk.files, k - 1) + 1,
                       sum_of_lengths(disk.files, k))

(***************************************************************************)
(* Properties of the codec                                                 *)
(***************************************************************************)
\* the entries of every dictionary of a value, the nested ones included, stand
\* in strictly ascending order of the raw bytes of their keys
RECURSIVE keys_ascending(_)
keys_ascending(b) ==
    CASE b.kind = "Dictionary" ->
             /\ \A k \in 1..(Len(b.entries) - 1) :
                    bytes_less(b.entries[k].key, b.entries[k + 1].key)
             /\ \A k \in 1..Len(b.entries) : keys_ascending(b.entries[k].value)
      [] b.kind = "List" -> \A k \in 1..Len(b.items) : keys_ascending(b.items[k])
      [] OTHER -> TRUE

\* C21: for every byte sequence bdecode accepts, decoding the bytes bencode
\* makes of the decoded value succeeds and gives the decoded value again, and
\* the pairs of every dictionary bencode walks are in ascending order of the
\* raw bytes of their keys.
C21_DecodeEncodeFixedPoint ==
    /\ (decoded.done /\ decoded.value.ok) => keys_ascending(decoded.value.bencodable)
    /\ redecoded.done =>
           /\ redecoded.value.ok
           /\ redecoded.value.bencodable = decoded.value.bencodable

\* a dictionary of two keys that the document gave in another order than
\* bencode did, decoded, encoded and decoded again
C21_Witness ==
    /\ redecoded.done
    /\ decoded.value.bencodable.kind = "Dictionary"
    /\ Len(decoded.value.bencodable.entries) = 2
    /\ encoded.value # document

\* C22: when the document is one complete value followed by at least one more
\* byte, bdecode returns the error ParseEnd with the position of the first
\* byte after the value, and no value.
C22_StrayByteIsParseEnd ==
    decoded.done =>
        \A k \in 1..(Len(document) - 1) :
            bdecode(SubSeq(document, 1, k)).ok =>
                decoded.value = ParseErr("ParseEnd", k)

\* a document that goes on after its first value, decoded
C22_Witness ==
    /\ decoded.done
    /\ ~decoded.value.ok
    /\ decoded.value.error_type = "ParseEnd"
    /\ decoded.value.index \in 1..(Len(document) - 1)
    /\ bdecode(SubSeq(document, 1, decoded.value.index)).ok

(***************************************************************************)
(* Properties of the order of service                                      *)
(***************************************************************************)
\* the bitfield has the bit of every piece 0..total_pieces-1
every_piece_set(t, bf) ==
    \A i \in 0..(t.total_pieces - 1) : is_set(bf, i).ok /\ is_set(bf, i).val

\* the pieces of the blocks handed out, in the order they were first served;
\* a piece that is served again after another one appears again
RECURSIVE pieces_served(_)
pieces_served(blocks) ==
    IF Len(blocks) = 0 THEN <<>>
    ELSE LET rest == pieces_served(SubSeq(blocks, 1, Len(blocks) - 1))
             p == blocks[Len(blocks)].piece
         IN  IF Len(rest) > 0 /\ rest[Len(rest)] = p THEN rest ELSE Append(rest, p)

\* piece 0, then piece n-1, then piece n-2, ... down to piece 1
swap_remove_order(n) == [k \in 1..n |-> IF k = 1 THEN 0 ELSE (n + 1) - k]

is_prefix(x, y) == Len(x) <= Len(y) /\ x = SubSeq(y, 1, Len(x))

\* C23: with a bitfield that has every piece set and every block filled before
\* the next call, the pieces are served in the order 0, N-1, N-2, ...: when a
\* queue runs empty the last piece of the active list takes its place and the
\* next blocks handed out are blocks of that piece.
C23_LastPieceServedNext ==
    every_piece_set(torrent, advertised) =>
        /\ is_prefix(pieces_served(served), swap_remove_order(torrent.total_pieces))
        /\ (/\ last.op = "get_next_block" /\ ~panicked /\ ~last.ret.some
            /\ Len(torrent.in_progress_blocks) = 0) => Len(torrent.pieces) = 0

\* the blocks of one piece are handed out from offset 0 in steps of
\* FIXED_BLOCK_SIZE, and a piece is left only when its queue is exhausted,
\* never to come back
one_piece_at_a_time(t, blocks) ==
    /\ \A k \in 1..Len(blocks) :
           IF k > 1 /\ blocks[k - 1].piece = blocks[k].piece
           THEN blocks[k].offset = blocks[k - 1].offset + FIXED_BLOCK_SIZE
           ELSE blocks[k].offset = 0
    /\ \A k \in 1..(Len(blocks) - 1) :
           blocks[k].piece # blocks[k + 1].piece =>
               /\ position_of_piece(t.pieces, blocks[k].piece) = 0
               /\ \A j \in (k + 1)..Len(blocks) : blocks[j].piece # blocks[k].piece

\* C24: under a fixed bitfield, once a block of a piece has been handed out,
\* the following successful calls hand out the remaining blocks of that piece
\* in ascending order of offset, FIXED_BLOCK_SIZE apart, before any block of
\* another piece.
C24_OnePieceAtATime == one_piece_at_a_time(torrent, served)

\* a piece of two blocks or more was handed out whole, and then a block of
\* another piece
C24_Witness ==
    /\ Len(served) >= 3
    /\ served[1].piece = served[2].piece
    /\ served[Len(served)].piece # served[1].piece

(***************************************************************************)
(* Properties of the places of a block                                     *)
(***************************************************************************)
block_key(b) == <<b.piece_index, b.offset>>

\* the blocks in the dispatch queues of the active list
queued_set(pieces) ==
    UNION {{pieces[k].blocks[j] : j \in 1..Len(pieces[k].blocks)} : k \in 1..Len(pieces)}

in_flight_set(t) == {t.in_progress_blocks[k] : k \in 1..Len(t.in_progress_blocks)}

grid_set(t) ==
    UNION {{t.completed_pieces[p][b].block :
               b \in {c \in DOMAIN t.completed_pieces[p] : t.completed_pieces[p][c].some}} :
           p \in DOMAIN t.completed_pieces}

\* the blocks Torrent::new made for the geometry of t
created_blocks(t) ==
    queued_set(Torrent_new(t.total_pieces, t.piece_length, total_length_of(t)).pieces)

keys_of(blocks) == {block_key(b) : b \in blocks}

each_block_in_one_place(t) ==
    LET queued == queued_set(t.pieces)
        flying == in_flight_set(t)
        done == grid_set(t)
    IN  /\ \A b \in queued : b.state = "NotRequested"
        /\ \A b \in flying : b.state = "Requested"
        /\ \A b \in done : b.state = "Done"
        /\ keys_of(queued) \cap keys_of(flying) = {}
        /\ keys_of(queued) \cap keys_of(done) = {}
        /\ keys_of(flying) \cap keys_of(done) = {}
        /\ Cardinality(keys_of(queued)) = queued_blocks(t.pieces, 1)
        /\ Cardinality(keys_of(flying)) = Len(t.in_progress_blocks)
        /\ Cardinality(keys_of(done)) = grid_count(t)
        /\ keys_of(queued) \cup keys_of(flying) \cup keys_of(done)
               = keys_of(created_blocks(t))

\* C25: in every state a call can find the scheduler in (a panic ends its
\* use), each block Torrent::new made is in exactly one of the dispatch queues
\* (NotRequested), the in-flight list (Requested) and the completed grid
\* (Done); and a block leaves the in-flight list only by the fill_block call
\* that names it, which puts it in the grid.
C25_EachBlockInOnePlace ==
    /\ [](~panicked => each_block_in_one_place(torrent))
    /\ [][\A k \in 1..Len(torrent.in_progress_blocks) :
             LET b == torrent.in_progress_blocks[k]
             IN  (~panicked' /\ ~in_flight(torrent', b.piece_index, b.offset)) =>
                     /\ last'.op = "fill_block"
                     /\ last'.piece = b.piece_index /\ last'.offset = b.offset
                     /\ block_key(b) \in keys_of(grid_set(torrent'))
        ]_vars

\* a block in each of the three places
C25_Witness ==
    /\ ~panicked
    /\ queued_set(torrent.pieces) # {}
    /\ in_flight_set(torrent) # {}
    /\ grid_set(torrent) # {}

\* C26: in every state a call can find the scheduler in, no piece of the
\* active list has an empty dispatch queue, so get_next_block never fails on
\* pop_front().expect or position().expect: when it panics, it is on the
\* is_set(..).unwrap() of the scan.
C26_NoEmptyQueueInActiveList ==
    /\ ~panicked => \A k \in 1..Len(torrent.pieces) : Len(torrent.pieces[k].blocks) > 0
    /\ (last.op = "get_next_block" /\ panicked) => select_piece(torrent.pieces, last.bf).panic

\* get_next_block has handed out the last block of a piece, which left the
\* active list, and other pieces are still in it
C26_Witness ==
    /\ last.op = "get_next_block" /\ last.ret.some /\ ~panicked
    /\ position_of_piece(torrent.pieces, last.ret.piece) = 0
    /\ Len(torrent.pieces) > 0

(***************************************************************************)
(* Properties of the requests of a connection                              *)
(***************************************************************************)
\* C27: no worker writes to the socket while it holds the write lock of the
\* scheduler: the request frames go out after the guard taken for
\* get_next_block is dropped, so a write that fails ends its worker and never
\* poisons the lock.
C27_NoWriteUnderLock == poisoned # "write"

\* the step wrote a request frame on the connection of w
request_written(w) == Len(pending'[w]) > Len(pending[w])

\* C28: a connection starts choked, not interested and with no request in
\* progress, and a request frame is written on it only while is_choked is
\* false.
C28_RequestsOnlyUnchoked ==
    /\ [](\A w \in Peers :
             worker[w].status \in {"idle", "none"} =>
                 /\ connection[w].is_choked
                 /\ ~connection[w].is_local_interested
                 /\ connection[w].in_progress_requests = 0)
    /\ [][\A w \in Peers :
             /\ (worker[w].status = "idle" /\ worker'[w].status = "running") =>
                    /\ connection'[w].is_choked
                    /\ ~connection'[w].is_local_interested
                    /\ connection'[w].in_progress_requests = 0
             /\ request_written(w) => ~connection'[w].is_choked
        ]_vars

\* a request frame is out on a connection that is not choked
C28_Witness ==
    \E w \in Peers :
        /\ worker[w].status = "running"
        /\ Len(pending[w]) > 0
        /\ ~connection[w].is_choked

\* C29: between two messages, in_progress_requests of a connection is the
\* number of request frames written on it less the number of piece messages
\* accepted from it, and lies in 0..MAX_IN_PROGRESS_REQUESTS_PER_CONNECTION:
\* it goes up only by the request frames that were written.
C29_InProgressCountsRequests ==
    \A w \in Peers :
        (worker[w].status = "running" /\ worker[w].at \in {"read", "check"}) =>
            /\ connection[w].in_progress_requests = traffic[w].balance
            /\ connection[w].in_progress_requests
                   \in 0..MAX_IN_PROGRESS_REQUESTS_PER_CONNECTION

\* C30: an interested frame is written only when is_local_interested is false
\* before it, so that a connection writes one interested frame at most,
\* whatever have and bitfield messages it receives.
C30_InterestedOnce ==
    /\ [](\A w \in Peers : traffic[w].interested <= 1)
    /\ [][\A w \in Peers :
             traffic'[w].interested > traffic[w].interested =>
                 ~connection[w].is_local_interested]_vars

(***************************************************************************)
(* Properties of the handlers of the messages of a peer                    *)
(***************************************************************************)
\* worker w has read a message and handled it in this step
handled(w) == worker[w] = Running("read") /\ worker'[w] # worker[w]

\* C31: after a have message for an index below total_pieces has been
\* handled, the bit of that index is set in the bitfield of the connection,
\* the one later get_next_block calls of the connection are given, whether or
\* not a bitfield message came before the have.
C31_HaveSetsBit ==
    [][\A w \in Peers : \A i \in 0..(torrent.total_pieces - 1) :
          (handled(w) /\ poisoned = "no" /\ Have(i) \in Incoming(w)
           /\ ReadMessage(w, Have(i))) =>
              /\ connection'[w].bitfield.some
              /\ is_set(connection'[w].bitfield.bytes, i).val
      ]_vars

(***************************************************************************)
(* Properties of Message::new                                              *)
(***************************************************************************)
\* C32: for a frame whose body is shorter than its type requires, a have
\* frame of fewer than 5 bytes and a piece frame of fewer than 9, Message::new
\* returns an error: it neither panics nor yields a message.
C32_ShortBodyIsError ==
    (/\ parsed.result.done
     /\ Len(parsed.bytes) > 0
     /\ \/ Head(parsed.bytes) = 4 /\ Len(parsed.bytes) < 5
        \/ Head(parsed.bytes) = 7 /\ Len(parsed.bytes) < 9) =>
        parsed.result.value.kind = "Err"

(***************************************************************************)
(* Properties of the end of a run of the engine                            *)
(***************************************************************************)
\* C33: the engine calls to_file only when are_we_done_yet() is true, also in
\* a run in which every worker left on an error of its connection or no peer
\* could be connected: a run whose to_file call has returned has every block
\* filled.
C33_ToFileOnlyWhenDone == engine.pc = "finished" => are_we_done_yet(torrent)

(***************************************************************************)
(* Properties of the blocks handed out                                     *)
(***************************************************************************)
\* C34: in a run, whatever the order of the calls of the workers and the
\* bitfields they pass, get_next_block returns no (piece, offset) twice: a
\* block handed out once is not handed out again, filled or not.
C34_NoBlockHandedTwice == \A key \in DOMAIN handed : handed[key] = 1

\* get_next_block is called with a block handed out earlier still unfilled,
\* after two blocks at least were handed out
C34_Witness ==
    /\ last.op = "get_next_block"
    /\ ~panicked
    /\ Cardinality(DOMAIN handed) >= 2
    /\ \E b \in in_flight_set(torrent) : block_key(b) \in DOMAIN handed

\* C35: the in-flight list holds one block at most, and while a block handed
\* out is unfilled a call of get_next_block returns None, whatever bitfield
\* the caller passes, and leaves the scheduler as it is.
C35_OneBlockInFlight ==
    /\ [](Len(torrent.in_progress_blocks) <= 1)
    /\ [][(Len(torrent.in_progress_blocks) = 1 /\ last'.op = "get_next_block") =>
              (~last'.ret.some /\ ~panicked' /\ torrent' = torrent)]_vars

\* get_next_block returned None to a caller that advertises a piece of the
\* active list, because a block is in flight
C35_Witness ==
    /\ last.op = "get_next_block"
    /\ ~last.ret.some
    /\ ~panicked
    /\ Len(torrent.in_progress_blocks) = 1
    /\ \E k \in 1..Len(torrent.pieces) : is_set(last.bf, torrent.pieces[k].index).val

\* C36: get_next_block does not panic for any bitfield a peer can supply: a
\* bitfield too short to hold the bit of a piece counts as the piece not
\* available, and the call returns a block or None.
C36_AnyBitfieldIsSafe == last.op = "get_next_block" => ~panicked

\* C37: an unchoke that is handled on a connection whose bitfield is absent
\* does not crash the worker: is_choked becomes false, no request frame is
\* written and the scheduler is left as it is.
C37_UnchokeWithoutBitfield ==
    [][\A w \in Peers :
          (handled(w) /\ poisoned = "no" /\ ~connection[w].bitfield.some
           /\ UnChoke \in Incoming(w) /\ ReadMessage(w, UnChoke)) =>
              /\ worker'[w].status = "running"
              /\ poisoned' = "no"
              /\ ~connection'[w].is_choked
              /\ pending'[w] = pending[w]
              /\ torrent' = torrent
      ]_vars

\* C38: whatever the peers send, fill_block is invoked only for a (piece,
\* offset) that is in the in-flight list at the time of the call, so that its
\* panic is not reached.
C38_FillOnlyInFlight ==
    [][\A w \in Peers :
          handled(w) /\ poisoned = "no" =>
              \A message \in {m \in Incoming(w) : m.type = "Piece" /\ Len(m.bytes) > 0} :
                  ReadMessage(w, message) =>
                      /\ in_flight(torrent, message.index, message.offset)
                      /\ worker'[w].status # "panicked"
      ]_vars

(***************************************************************************)
(* Properties of the blocks Torrent::new creates                           *)
(***************************************************************************)
\* the ranges of the blocks of a queue follow one another from offset 0
contiguous_from_zero(blocks) ==
    /\ Len(blocks) > 0 => blocks[1].offset = 0
    /\ \A j \in 1..(Len(blocks) - 1) :
           blocks[j + 1].offset = blocks[j].offset + blocks[j].block_length

RECURSIVE length_of_blocks(_)
length_of_blocks(blocks) ==
    IF Len(blocks) = 0 THEN 0
    ELSE Head(blocks).block_length + length_of_blocks(Tail(blocks))

RECURSIVE length_of_pieces(_)
length_of_pieces(pieces) ==
    IF Len(pieces) = 0 THEN 0
    ELSE length_of_blocks(Head(pieces).blocks) + length_of_pieces(Tail(pieces))

\* C39: for every total length and piece length, the number of pieces being
\* the quotient rounded up, the blocks Torrent::new creates tile the content:
\* in each piece the ranges of its blocks are disjoint and contiguous from 0,
\* and the lengths of all blocks sum to the total length, also when the total
\* length is an exact multiple of the piece length.
C39_BlocksTileContent ==
    LET created == Torrent_new(torrent.total_pieces, torrent.piece_length,
                               total_length_of(torrent)).pieces
    IN  /\ \A k \in 1..Len(created) : contiguous_from_zero(created[k].blocks)
        /\ length_of_pieces(created) = total_length_of(torrent)

(***************************************************************************)
(* Properties of the setter of a BitField                                  *)
(***************************************************************************)
\* C40: after set(i) has succeeded on a bitfield, is_set(i) returns Ok(true)
\* and is_set(j) returns for every j other than i what it returned before;
\* a second set(i) changes nothing.
C40_SetFrame ==
    (field.op = "set" /\ field.ok) =>
        /\ is_set(field.bf, field.bit) = [ok |-> TRUE, val |-> TRUE]
        /\ \A j \in Bits \ {field.bit} : is_set(field.bf, j) = is_set(field.before, j)
        /\ is_set(field.before, field.bit).val => field.bf = field.before
        /\ set(field.bf, field.bit) = field.bf

\* a second set of a bit has succeeded on a bitfield in which another bit is
\* set as well
C40_Witness ==
    /\ field.op = "set"
    /\ field.ok
    /\ field.sets = 2
    /\ is_set(field.before, field.bit).val
    /\ \E j \in Bits \ {field.bit} : is_set(field.bf, j).val

====
